---- MODULE Spec2Model ----
(***************************************************************************)
(* Redactr: the Evaluator/Redactor ("Ralph-Lisa") loop, the remote         *)
(* inference client and the detection orchestrator with its worker.        *)
(*                                                                         *)
(* Scores are integers in percent (0.7 is 70).  JavaScript runs one task   *)
(* at a time: an action is the code that runs between two points at which  *)
(* an async function waits for real I/O (a fetch, a model load, an         *)
(* inference, a message).                                                  *)
(***************************************************************************)
EXTENDS Integers, Sequences, FiniteSets, TLC

\* ------------------------------------------------------------------ bounds
\* Largest maxSteps a modelled run is started with.
MaxStepsBound == 2
\* the version counter of the undo history is followed up to this value
MaxVersion == 6

\* ------------------------------------------------------------ program data
NoKey == "null"
NoImage == "null"
NoCtl == 0
NoScore == -1
NoError == "null"

Keys == {"k1"}
Images == {"img"}
\* the activations of startRalphLisaLoop that pass validation: two, so that
\* they can overlap
Runs == {1, 2}

\* initialState of the loop store
DefaultTargetScore == 70
DefaultMaxSteps == 5
\* planWithRalph: "score is already very high"
ExcellentScore == 90

\* value the option buttons hand to setMaxSteps
StepInputs == {MaxStepsBound}

Min(a, b) == IF a < b THEN a ELSE b
Max(a, b) == IF a > b THEN a ELSE b

VARIABLES
    sota,                   \* sotaStore state
    sessionKey,             \* sessionStorage["redactr_openrouter_api_key"]
    currentAbortController, \* module variable of sota/index.ts: run whose controller it holds
    run,                    \* the activations of startRalphLisaLoop
    image,                  \* imageStore.current
    history,                \* historyStore state
    cliIn, cliOut           \* one call of the remote inference client: scenario, outcome

loopVars == <<sota, sessionKey, currentAbortController, run, image, history>>
cliVars == <<cliIn, cliOut>>

\* ------------------------------------------------------- SOTAError, errors
SOTAError(type, message, retryable) ==
    [name |-> "SOTAError", type |-> type, message |-> message, retryable |-> retryable]

\* the TypeError of reading a property of null
TypeError(message) == [name |-> "TypeError", message |-> message]

Ok(value) == [ok |-> TRUE, value |-> value]
Throw(err) == [ok |-> FALSE, err |-> err]

\* ------------------------------------------------------------- openrouter.ts
MutMapStatusToErrorType(status) ==
    IF status = 401 THEN "auth"
    ELSE IF status = 429 THEN "rate_limit"
    ELSE IF status >= 500 THEN "server"
    ELSE "unknown"

mapStatusToErrorType(status) ==
    IF status = 401 \/ status = 403 THEN "auth"
    ELSE IF status = 429 THEN "rate_limit"
    ELSE IF status >= 500 THEN "server"
    ELSE "unknown"

ResponseOk(status) == status >= 200 /\ status <= 299

StatusMessage(status) == "OpenRouter API error: " \o ToString(status)

\* A scenario is what the network does with one request:
\*   net = "abort"   the fetch promise rejects with AbortError
\*   net = "fail"    the fetch promise rejects with another error
\*   net = "response": an HTTP response with `status` and a body of `kind`
\*     non-2xx: "error_message" (JSON carrying error.message) or "other"
\*     2xx:     "unreadable" (response.json() rejects), "no_content" (no
\*              choices[0].message.content), "not_json" (content that
\*              JSON.parse rejects) or "json" (content that parses to `json`)
\*   fenced: the content is wrapped in a ``` code fence
callOpenRouter(sc) ==
    IF sc.net = "abort" THEN Throw(SOTAError("network", "Request was cancelled", FALSE))
    ELSE IF sc.net = "fail" THEN Throw(SOTAError("network", "Failed to connect to OpenRouter", TRUE))
    ELSE IF ~ResponseOk(sc.status) THEN
        LET errorType == mapStatusToErrorType(sc.status)
            errorMessage == IF sc.kind = "error_message" THEN "message of the error body"
                            ELSE StatusMessage(sc.status)
        IN Throw(SOTAError(errorType, errorMessage,
                           errorType = "rate_limit" \/ errorType = "server"))
    ELSE IF sc.kind = "unreadable" THEN
        Throw(SOTAError("parse", "Failed to parse OpenRouter response", FALSE))
    ELSE IF sc.kind = "no_content" THEN
        Throw(SOTAError("parse", "Empty response from OpenRouter", TRUE))
    ELSE Ok([fenced |-> sc.fenced, kind |-> sc.kind, json |-> sc.json])

\* strips one code fence if present, then JSON.parse
parseJSONResponse(content) ==
    LET jsonStr == [content EXCEPT !.fenced = FALSE] IN
    IF jsonStr.kind = "not_json" THEN
        Throw(SOTAError("parse", "Failed to parse JSON response", FALSE))
    ELSE Ok(jsonStr.json)

\* ------------------------------------------------------------------ lisa.ts
\* The JSON value of a reply: hasScore (vaguenessScore is a number, not NaN),
\* vaguenessScore (percent), visibleLeaks (how many), redactions (the
\* Validator's output for the planner's list).
MutValidateLisaResponse(raw) ==
    IF raw.isNull \/ ~raw.hasScore THEN
        Throw(SOTAError("parse", "Lisa response missing vaguenessScore", FALSE))
    ELSE Ok([vaguenessScore |-> raw.vaguenessScore, visibleLeaks |-> raw.visibleLeaks])

validateLisaResponse(raw) ==
    IF raw.isNull THEN
        Throw(TypeError("Cannot read properties of null (reading 'vaguenessScore')"))
    ELSE IF ~raw.hasScore THEN
        Throw(SOTAError("parse", "Lisa response missing vaguenessScore", FALSE))
    ELSE Ok([vaguenessScore |-> Max(0, Min(100, raw.vaguenessScore)),
             visibleLeaks |-> raw.visibleLeaks])

\* evaluateWithLisa: call, parse, validate
evaluateWithLisa(sc) ==
    LET response == callOpenRouter(sc) IN
    IF ~response.ok THEN response
    ELSE LET parsed == parseJSONResponse(response.value) IN
         IF ~parsed.ok THEN parsed ELSE validateLisaResponse(parsed.value)

\* ----------------------------------------------------------------- ralph.ts
MutPlanIsEmptyWithoutCall(evaluation) == evaluation.visibleLeaks = 0

\* planWithRalph returns an empty plan without a remote call when this holds
PlanIsEmptyWithoutCall(evaluation) ==
    evaluation.visibleLeaks = 0 \/ evaluation.vaguenessScore >= ExcellentScore

\* the plan of an iteration: null, or a RalphPlan
NullPlan == [isNull |-> TRUE, redactions |-> <<>>, explanation |-> ""]
Plan(redactions, explanation) ==
    [isNull |-> FALSE, redactions |-> redactions, explanation |-> explanation]

\* the plan of the two early returns of planWithRalph
EmptyPlan(evaluation) ==
    IF evaluation.visibleLeaks = 0
    THEN Plan(<<>>, "No specific PII leaks identified - no additional redactions needed.")
    ELSE Plan(<<>>, "Privacy score is already excellent (90%+) - no changes needed.")

\* A JSON value where the code expects a number: Number(v) is NaN, or a
\* number given in halves (0.5 is 1, 100 is 200).
Num(halves) == [num |-> TRUE, halves |-> halves]
NotANumber == [num |-> FALSE, halves |-> 0]
\* a JSON value that is not a string, where the code expects one
NotAString == "undefined"

\* Number(v) || fallback, in halves: NaN and 0 give the fallback
NumberOr(v, fallback) == IF ~v.num \/ v.halves = 0 THEN 2 * fallback ELSE v.halves
\* Math.round: the nearest integer, a half goes up
MathRound(halves) == (halves + 1) \div 2

ValidStyles == {"solid", "pixelate", "blur"}
DefaultExtent == 50
DefaultIntensity == 70
MaxIntensity == 100

\* an item of raw.redactions
RawRedaction(style, x, y, width, height, intensity, reason) ==
    [style |-> style, x |-> x, y |-> y, width |-> width, height |-> height,
     intensity |-> intensity, reason |-> reason]

MutClampCoordinate(v, size) == Max(0, Min(size, v))
\* Math.max(0, Math.min(size - 1, v)), lines 220-221
ClampCoordinate(v, size) == Max(0, Min(size - 1, v))

\* lets an extent below 1 through
MutClampExtentFromZero(v, size, pos) == Max(0, Min(size - pos, v))
MutClampExtent(v, size, pos) == Max(1, Min(size - pos, v) - 1)
\* Math.max(1, Math.min(size - pos, v)), lines 222-223
ClampExtent(v, size, pos) == Max(1, Min(size - pos, v))

\* the function mapped over raw.redactions, lines 205-235
validateRedaction(r, imageWidth, imageHeight) ==
    LET style == IF r.style \in ValidStyles THEN r.style ELSE "solid"
        x == ClampCoordinate(MathRound(NumberOr(r.x, 0)), imageWidth)
        y == ClampCoordinate(MathRound(NumberOr(r.y, 0)), imageHeight)
        width == ClampExtent(MathRound(NumberOr(r.width, DefaultExtent)), imageWidth, x)
        height == ClampExtent(MathRound(NumberOr(r.height, DefaultExtent)), imageHeight, y)
        intensity == Max(1, Min(MaxIntensity,
                                MathRound(NumberOr(r.intensity, DefaultIntensity))))
        reason == IF r.reason = NotAString THEN "Redacting PII" ELSE r.reason
    IN [style |-> style, x |-> x, y |-> y, width |-> width, height |-> height,
        intensity |-> intensity, reason |-> reason]

\* validateRalphResponse, lines 193-244; raw: the parsed JSON value
validateRalphResponse(raw, imageWidth, imageHeight) ==
    LET list == IF raw.isArray THEN raw.redactions ELSE <<>>
        mapped == [i \in DOMAIN list |-> validateRedaction(list[i], imageWidth, imageHeight)]
        redactions == SelectSeq(mapped, LAMBDA r : r.width > 0 /\ r.height > 0)
        explanation == IF raw.explanation = NotAString THEN "Redaction plan generated"
                       ELSE raw.explanation
    IN Plan(redactions, explanation)

\* ImageData.width and ImageData.height of the images of the model
Width(img) == IF img = "small" THEN 1 ELSE 3
Height(img) == IF img = "small" THEN 1 ELSE 2

\* the remote part of planWithRalph for imageData: call, parse, validate
planWithRalphRemote(sc, imageData) ==
    LET response == callOpenRouter(sc) IN
    IF ~response.ok THEN response
    ELSE LET parsed == parseJSONResponse(response.value) IN
         IF ~parsed.ok THEN parsed
         ELSE IF parsed.value.isNull THEN
             Throw(TypeError("Cannot read properties of null (reading 'redactions')"))
         ELSE Ok(validateRalphResponse(parsed.value, Width(imageData), Height(imageData)))

\* ---------------------------------------------------------- stores/sota.ts
InitialSota ==
    [apiKey |-> NoKey, targetScore |-> DefaultTargetScore, maxSteps |-> DefaultMaxSteps,
     isRunning |-> FALSE, status |-> "idle", currentStep |-> 0, currentScore |-> NoScore,
     iterations |-> <<>>, error |-> NoError]

SotaSetApiKey(s, key) == [s EXCEPT !.apiKey = key, !.error = NoError]
MutSotaClearApiKey(s) == [s EXCEPT !.isRunning = FALSE, !.status = "idle"]
SotaClearApiKey(s) == [s EXCEPT !.apiKey = NoKey, !.isRunning = FALSE, !.status = "idle"]
SotaSetTargetScore(s, score) == [s EXCEPT !.targetScore = Max(0, Min(100, score))]
SotaSetMaxSteps(s, steps) == [s EXCEPT !.maxSteps = Max(1, Min(10, steps))]
SotaStartLoop(s) ==
    [s EXCEPT !.isRunning = TRUE, !.status = "evaluating", !.currentStep = 0,
              !.currentScore = NoScore, !.iterations = <<>>, !.error = NoError]
SotaUpdateStatus(s, status) == [s EXCEPT !.status = status]
SotaSetCurrentStep(s, step) == [s EXCEPT !.currentStep = step]
SotaSetCurrentScore(s, score) == [s EXCEPT !.currentScore = score]
SotaAddIteration(s, iteration) == [s EXCEPT !.iterations = Append(@, iteration)]
MutSotaComplete(s, status) == [s EXCEPT !.status = status]
MutSotaSetError(s, error) == [s EXCEPT !.isRunning = FALSE, !.status = "error"]
MutSotaSetErrorWhileRunning(s, error) == [s EXCEPT !.status = "error", !.error = error]
SotaSetError(s, error) == [s EXCEPT !.isRunning = FALSE, !.status = "error", !.error = error]
SotaComplete(s, status) == [s EXCEPT !.isRunning = FALSE, !.status = status]
SotaReset(key) == [InitialSota EXCEPT !.apiKey = key]

canStartLoop == sota.apiKey # NoKey /\ ~sota.isRunning

\* ------------------------------------------------------- stores/history.ts
\* (the ids and timestamps of the commands are left out)
InitialHistory == [commands |-> <<>>, currentIndex |-> -1, version |-> 0]

\* slice(0, end) of an array
SliceTo(array, end) ==
    SubSeq(array, 1, IF end < 0 THEN Max(0, Len(array) + end) ELSE Min(end, Len(array)))

\* appends without discarding the commands beyond currentIndex
MutHistoryPush(h, command) ==
    [commands |-> Append(h.commands, command), currentIndex |-> h.currentIndex + 1,
     version |-> h.version + 1]

HistoryPush(h, command) ==
    LET commands == SliceTo(h.commands, h.currentIndex + 1) IN
    [commands |-> Append(commands, command), currentIndex |-> Len(commands),
     version |-> h.version + 1]

\* steps back without looking at currentIndex
MutHistoryUndo(h) ==
    [h EXCEPT !.currentIndex = @ - 1, !.version = @ + 1]

HistoryUndo(h) ==
    IF h.currentIndex < 0 THEN h
    ELSE [h EXCEPT !.currentIndex = @ - 1, !.version = @ + 1]

HistoryRedo(h) ==
    IF h.currentIndex >= Len(h.commands) - 1 THEN h
    ELSE [h EXCEPT !.currentIndex = @ + 1, !.version = @ + 1]

getActiveCommands(h) == SliceTo(h.commands, h.currentIndex + 1)
canUndo(h) == h.currentIndex >= 0
canRedo(h) == h.currentIndex < Len(h.commands) - 1

\* the command applyRedactions pushes for a redaction, index.ts:194-206
RectCommand(redaction) ==
    [type |-> "rect", style |-> redaction.style,
     region |-> [x |-> redaction.x, y |-> redaction.y,
                 width |-> redaction.width, height |-> redaction.height],
     intensity |-> redaction.intensity]

RECURSIVE HistoryPushAll(_, _)
\* one push per applied redaction
HistoryPushAll(h, cmds) ==
    IF cmds = <<>> THEN h
    ELSE HistoryPushAll(HistoryPush(h, RectCommand(Head(cmds))), Tail(cmds))

\* ------------------------------------------------ sota/index.ts: one run
NoEvaluation == [vaguenessScore |-> NoScore, visibleLeaks |-> 0]

\* An activation of startRalphLisaLoop.  pc: "unused", "evaluating" (the
\* Evaluate request is in flight), "planning" (the Planner request is in
\* flight), "done".  apiKey, maxSteps, targetScore: the snapshot `state`.
\* aborted: signal.aborted.  step, currentImage, evaluation: the locals of
\* the loop body.
\* planCalls: how often the run has called planWithRalph.  A run that has
\* returned has no locals left.
UnusedRun ==
    [pc |-> "unused", step |-> 0, aborted |-> FALSE, apiKey |-> NoKey, maxSteps |-> 0,
     targetScore |-> 0, currentImage |-> NoImage, evaluation |-> NoEvaluation,
     planCalls |-> 0]

ReturnedRun == [UnusedRun EXCEPT !.pc = "done"]

\* the world one run acts on
World(s, k, r, img, h) == [sota |-> s, sessionKey |-> k, run |-> r, image |-> img, history |-> h]

\* return after sotaStore.complete(status)
Complete(w, status) ==
    [w EXCEPT !.sota = SotaComplete(@, status), !.run = ReturnedRun]

\* clears the key on every SOTAError
MutCatch(w, err) ==
    LET cleared == IF err.name = "SOTAError"
                   THEN [w EXCEPT !.sota = SotaClearApiKey(@), !.sessionKey = NoKey]
                   ELSE w
    IN
    IF err.name # "SOTAError" /\ err.name = "AbortError"
    THEN [w EXCEPT !.sota = SotaComplete(@, "cancelled"), !.run = ReturnedRun]
    ELSE [cleared EXCEPT !.sota = SotaSetError(@, err.message), !.run = ReturnedRun]

\* the catch block, lines 127-142
Catch(w, err) ==
    LET cleared == IF err.name = "SOTAError" /\ err.type = "auth"
                   THEN [w EXCEPT !.sota = SotaClearApiKey(@), !.sessionKey = NoKey]
                   ELSE w
    IN
    IF err.name # "SOTAError" /\ err.name = "AbortError"
    THEN [w EXCEPT !.sota = SotaComplete(@, "cancelled"), !.run = ReturnedRun]
    ELSE [cleared EXCEPT !.sota = SotaSetError(@, err.message), !.run = ReturnedRun]

MutStepInRange(step, maxSteps) == step <= maxSteps + 1

\* the for loop's condition
StepInRange(step, maxSteps) == step <= maxSteps

\* the head of the loop body for `step`, lines 47-67: up to the Evaluate request
LoopTop(w, step) ==
    IF ~StepInRange(step, w.run.maxSteps) THEN Complete(w, "max_steps")
    ELSE IF w.run.aborted THEN Complete(w, "cancelled")
    ELSE LET s1 == SotaSetCurrentStep(w.sota, step) IN
         IF w.image = NoImage
         THEN Catch([w EXCEPT !.sota = s1, !.run.step = step],
                    SOTAError("unknown", "Image was cleared during loop", FALSE))
         ELSE [w EXCEPT !.sota = SotaUpdateStatus(s1, "evaluating"),
                        !.run = [@ EXCEPT !.pc = "evaluating", !.step = step,
                                          !.currentImage = w.image]]

\* stops at the first redaction whose application throws
MutApplied(redactions, img, fails) ==
    IF redactions = <<>> \/ img = NoImage \/ Head(redactions) \in fails THEN <<>>
    ELSE <<Head(redactions)>> \o SelectSeq(Tail(redactions), LAMBDA r : r \notin fails)

\* applyRedactions, lines 161-216: `fails` are the redactions whose application throws
Applied(redactions, img, fails) ==
    IF redactions = <<>> THEN <<>>
    ELSE IF img = NoImage THEN <<>>
    ELSE SelectSeq(redactions, LAMBDA r : r \notin fails)

MutIteration(step, evaluation, plan, appliedRedactions) ==
    [step |-> step, evaluation |-> evaluation, plan |-> NullPlan,
     appliedRedactions |-> appliedRedactions]

Iteration(step, evaluation, plan, appliedRedactions) ==
    [step |-> step, evaluation |-> evaluation, plan |-> plan,
     appliedRedactions |-> appliedRedactions]

\* after planWithRalph has returned `plan`, lines 99-123, then the next step
AfterPlan(w, plan, fails) ==
    IF w.run.aborted THEN Complete(w, "cancelled")
    ELSE LET applied == Applied(plan.redactions, w.image, fails)
             s1 == SotaUpdateStatus(w.sota, "redacting")
             s2 == SotaAddIteration(s1, Iteration(w.run.step, w.run.evaluation, plan, applied))
             w1 == [w EXCEPT !.sota = s2, !.history = HistoryPushAll(@, applied)]
         IN LoopTop(w1, w.run.step + 1)

MutTargetReached(score, targetScore) == score > targetScore

TargetReached(score, targetScore) == score >= targetScore

\* after evaluateWithLisa has returned `evaluation`, lines 69-97
AfterEvaluate(w, evaluation) ==
    LET s1 == SotaSetCurrentScore(w.sota, evaluation.vaguenessScore)
        w1 == [w EXCEPT !.sota = s1, !.run.evaluation = evaluation] IN
    IF TargetReached(evaluation.vaguenessScore, w.run.targetScore)
    THEN Complete([w1 EXCEPT !.sota = SotaAddIteration(@,
                       Iteration(w.run.step, evaluation, NullPlan, <<>>))], "completed")
    ELSE IF w.run.aborted THEN Complete(w1, "cancelled")
    ELSE LET w2 == [w1 EXCEPT !.sota = SotaUpdateStatus(@, "planning"),
                              !.run.planCalls = @ + 1] IN
         IF PlanIsEmptyWithoutCall(evaluation)
         THEN AfterPlan(w2, EmptyPlan(evaluation), {})
         ELSE [w2 EXCEPT !.run.pc = "planning"]

\* ------------------------------------------------ what the network can do
\* the value JSON.parse returns for a reply
Json(hasScore, score, leaks, redactions) ==
    [isNull |-> FALSE, hasScore |-> hasScore, vaguenessScore |-> score,
     visibleLeaks |-> leaks, isArray |-> TRUE, redactions |-> redactions,
     explanation |-> NotAString]
\* a planner's reply: redactions (an array or not) and explanation
RawPlan(isArray, redactions, explanation) ==
    [Json(FALSE, 0, 0, redactions) EXCEPT !.isArray = isArray, !.explanation = explanation]
NoJson == Json(FALSE, 0, 0, <<>>)

Scenario(net, status, kind, fenced, json) ==
    [net |-> net, status |-> status, kind |-> kind, fenced |-> fenced, json |-> json]

AbortScenario == Scenario("abort", 0, "none", FALSE, NoJson)
FailScenario == Scenario("fail", 0, "none", FALSE, NoJson)
\* the reply "null": JSON.parse returns null
NullReply == Scenario("response", 200, "json", FALSE, [NoJson EXCEPT !.isNull = TRUE])
ErrorResponses(statuses, kinds) ==
    {Scenario("response", st, k, FALSE, NoJson) : st \in statuses, k \in kinds}
BadBodies(statuses, fences) ==
    {Scenario("response", st, k, f, NoJson) :
        st \in statuses, k \in {"unreadable", "no_content", "not_json"}, f \in fences}
\* raws: pairs <<raw vaguenessScore in percent, number of visibleLeaks>>
LisaReplies(statuses, fences, raws) ==
    {Scenario("response", st, "json", f, Json(TRUE, sc[1], sc[2], <<>>)) :
        st \in statuses, f \in fences, sc \in raws}
LisaRepliesWithoutScore(statuses, fences) ==
    {Scenario("response", st, "json", f, Json(FALSE, 0, 1, <<>>)) :
        st \in statuses, f \in fences}
\* plans: the planner's replies
RalphReplies(statuses, fences, plans) ==
    {Scenario("response", st, "json", f, p) :
        st \in statuses, f \in fences, p \in plans}

\* The requests of a loop run.  A request whose signal is aborted rejects
\* with AbortError while the fetch is pending; one whose reply was already
\* delivered settles as if it had not been aborted.
LoopErrorStatuses == {401, 403}
LoopRawEvaluations == {<<-10, 1>>, <<70, 1>>}
\* x 1, y 0, 100 wide, 1 high: clamped to the image the planner was shown
LoopRawRedaction ==
    RawRedaction("blur", Num(2), Num(0), Num(200), Num(2), Num(100), "face")
LoopPlans == {RawPlan(TRUE, <<LoopRawRedaction>>, "one face")}
\* the redactions of a plan whose application throws
LoopFailChoices == {{}}
LoopFailures(aborted) ==
    (IF aborted THEN {AbortScenario} ELSE {FailScenario})
    \cup ErrorResponses(LoopErrorStatuses, {"other"})
EvalScenarios(aborted) ==
    LoopFailures(aborted) \cup LisaReplies({200}, {FALSE}, LoopRawEvaluations)
PlanScenarios(aborted) ==
    LoopFailures(aborted) \cup RalphReplies({200}, {FALSE}, LoopPlans)

\* --------------------------------------------------------- loop: actions
Range(seq) == {seq[i] : i \in DOMAIN seq}

\* the run's effects become the new state; the finally block clears the
\* module's controller when the run has returned
Commit(r, w) ==
    /\ sota' = w.sota
    /\ sessionKey' = w.sessionKey
    /\ run' = [run EXCEPT ![r] = w.run]
    /\ image' = w.image
    /\ history' = w.history
    /\ currentAbortController' =
          IF w.run.pc = "done" THEN NoCtl ELSE currentAbortController

\* startRalphLisaLoop(), lines 25-67
StartRalphLisaLoop ==
    LET state == sota IN
    IF state.apiKey = NoKey THEN
        /\ sota' = SotaSetError(sota, "No API key configured")
        /\ UNCHANGED <<sessionKey, currentAbortController, run, image, history>>
    ELSE IF image = NoImage THEN
        /\ sota' = SotaSetError(sota, "No image loaded")
        /\ UNCHANGED <<sessionKey, currentAbortController, run, image, history>>
    ELSE \E r \in Runs :
        /\ run[r].pc = "unused"
        /\ \A q \in Runs : q < r => run[q].pc # "unused"
        /\ state.maxSteps <= MaxStepsBound
        /\ LET fresh == [UnusedRun EXCEPT !.apiKey = state.apiKey,
                                          !.maxSteps = state.maxSteps,
                                          !.targetScore = state.targetScore]
           IN \E w \in {LoopTop(World(SotaStartLoop(sota), sessionKey, fresh, image, history), 1)} :
              /\ sota' = w.sota
              /\ sessionKey' = w.sessionKey
              /\ run' = [run EXCEPT ![r] = w.run]
              /\ currentAbortController' = IF w.run.pc = "done" THEN NoCtl ELSE r
              /\ UNCHANGED <<image, history>>

\* the Evaluate request of run r settles as scenario sc; the run goes on to
\* its next request or returns
EvaluateSettlesAs(r, sc) ==
    /\ run[r].pc = "evaluating"
    /\ LET res == evaluateWithLisa(sc)
           w == World(sota, sessionKey, run[r], image, history)
       IN \E after \in {IF res.ok THEN AfterEvaluate(w, res.value) ELSE Catch(w, res.err)} :
              Commit(r, after)

EvaluateSettles(r) == \E sc \in EvalScenarios(run[r].aborted) : EvaluateSettlesAs(r, sc)

\* the Planner request of run r settles as scenario sc; applying the
\* redactions in `fails` throws
PlanSettlesAs(r, sc, fails) ==
    /\ run[r].pc = "planning"
    /\ LET res == planWithRalphRemote(sc, run[r].currentImage)
           w == World(sota, sessionKey, run[r], image, history)
       IN IF res.ok
          THEN /\ fails \subseteq Range(res.value.redactions)
               /\ \E after \in {AfterPlan(w, res.value, fails)} : Commit(r, after)
          ELSE /\ fails = {}
               /\ \E after \in {Catch(w, res.err)} : Commit(r, after)

PlanSettles(r) ==
    \E sc \in PlanScenarios(run[r].aborted), fails \in LoopFailChoices :
        PlanSettlesAs(r, sc, fails)

\* cancelRalphLisaLoop(), lines 151-156
CancelRalphLisaLoop ==
    IF currentAbortController # NoCtl
    THEN /\ run' = [run EXCEPT ![currentAbortController].aborted = TRUE]
         /\ currentAbortController' = NoCtl
         /\ UNCHANGED <<sota, sessionKey, image, history>>
    ELSE UNCHANGED loopVars

SetApiKey(key) ==
    /\ sessionKey' = key
    /\ sota' = SotaSetApiKey(sota, key)
    /\ UNCHANGED <<currentAbortController, run, image, history>>

ClearApiKey ==
    /\ sessionKey' = NoKey
    /\ sota' = SotaClearApiKey(sota)
    /\ UNCHANGED <<currentAbortController, run, image, history>>

\* the settings form is shown while no run is active (DetectionPanel)
SetMaxSteps(steps) ==
    /\ ~sota.isRunning
    /\ sota' = SotaSetMaxSteps(sota, steps)
    /\ UNCHANGED <<sessionKey, currentAbortController, run, image, history>>

\* the target slider of the settings form, DetectionPanel.svelte:414-422
SetTargetScore(score) ==
    /\ ~sota.isRunning
    /\ sota' = SotaSetTargetScore(sota, score)
    /\ UNCHANGED <<sessionKey, currentAbortController, run, image, history>>

Reset ==
    /\ sota' = SotaReset(sessionKey)
    /\ UNCHANGED <<sessionKey, currentAbortController, run, image, history>>

\* stores/image.ts: what load(file) and clear() leave in `current`
imageStoreLoad(img) == img
imageStoreClear == NoImage

\* the drop zone is shown while no image is loaded: loadFile(file), once
\* imageStore.load(file) has finished
ImageLoad(img) ==
    /\ image = NoImage
    /\ image' = imageStoreLoad(img)
    /\ UNCHANGED <<sota, sessionKey, currentAbortController, run, history>>

\* handleClear(): imageStore.clear(); historyStore.clear()
handleClear ==
    /\ image # NoImage
    /\ image' = imageStoreClear
    /\ history' = InitialHistory
    /\ UNCHANGED <<sota, sessionKey, currentAbortController, run>>

\* ------------------------------------------- the client alone: one call
NotCalled == [called |-> FALSE]
Called(caller, res) == [called |-> TRUE, caller |-> caller, res |-> res]
IdleClient == [caller |-> "none", sc |-> AbortScenario, imageData |-> NoImage]

ClientStatuses == {200, 204, 400, 401, 403, 404, 429, 500, 503}
ClientScenarios ==
    {AbortScenario, FailScenario}
    \cup ErrorResponses({st \in ClientStatuses : ~ResponseOk(st)}, {"error_message", "other"})
    \cup BadBodies({st \in ClientStatuses : ResponseOk(st)}, BOOLEAN)
    \cup LisaReplies({200}, BOOLEAN, {<<-10, 0>>, <<50, 1>>, <<120, 1>>})
    \cup LisaRepliesWithoutScore({200}, BOOLEAN)
    \cup RalphReplies({200}, BOOLEAN,
                       {RawPlan(TRUE, <<>>, "nothing to do"),
                        RawPlan(TRUE, <<LoopRawRedaction, LoopRawRedaction>>, NotAString)})

ClientCall ==
    /\ cliIn.caller # "none"
    /\ ~cliOut.called
    /\ cliOut' = Called(cliIn.caller,
                   IF cliIn.caller = "lisa" THEN evaluateWithLisa(cliIn.sc)
                   ELSE IF cliIn.caller = "ralph"
                        THEN planWithRalphRemote(cliIn.sc, cliIn.imageData)
                   ELSE callOpenRouter(cliIn.sc))
    /\ UNCHANGED <<cliIn, sota, sessionKey, currentAbortController, run, image, history>>

\* ------------------------------------- the Validator alone: two passes
\* Largest image side the Validator is given.
MaxSide == 3

VARIABLES
    valIn,   \* arguments of validateRalphResponse: raw, imageWidth, imageHeight
    valOut   \* what it returned, and what it returned for that plan again

valVars == <<valIn, valOut>>

\* -1.5, 0, 0.5, the last pixel, beyond the image, and no number at all
RawNumbers ==
    {NotANumber} \cup {Num(h) : h \in {-3, 0, 1, 2 * MaxSide - 2, 2 * MaxSide + 1}}
\* style, intensity and reason of an item
Dressings ==
    {[style |-> "blur", intensity |-> Num(100), reason |-> "face"],
     [style |-> "fill", intensity |-> NotANumber, reason |-> NotAString],
     [style |-> "pixelate", intensity |-> Num(401), reason |-> "plate"],
     [style |-> "solid", intensity |-> Num(0), reason |-> "text"],
     [style |-> "solid", intensity |-> Num(-3), reason |-> "text"]}
RawRectangles ==
    {RawRedaction(d.style, x, y, w, h, d.intensity, d.reason) :
        x \in RawNumbers, y \in RawNumbers, w \in RawNumbers, h \in RawNumbers,
        d \in Dressings}
RawPlans ==
    {RawPlan(TRUE, <<r>>, "plan") : r \in RawRectangles}
    \cup {RawPlan(TRUE, <<LoopRawRedaction, RawRedaction("solid", n, n, n, n, n, "text")>>,
                   NotAString) : n \in RawNumbers}
    \cup {RawPlan(FALSE, <<>>, "no list"), RawPlan(TRUE, <<>>, NotAString)}
ValidatorInputs ==
    {[raw |-> raw, imageWidth |-> w, imageHeight |-> h] :
        raw \in RawPlans, w \in 1..MaxSide, h \in 1..MaxSide}
IdleValidator == [raw |-> RawPlan(FALSE, <<>>, NotAString), imageWidth |-> 0, imageHeight |-> 0]

\* the JSON value of a RalphPlan
AsRaw(plan) ==
    RawPlan(TRUE,
            [i \in DOMAIN plan.redactions |->
                LET r == plan.redactions[i] IN
                RawRedaction(r.style, Num(2 * r.x), Num(2 * r.y), Num(2 * r.width),
                             Num(2 * r.height), Num(2 * r.intensity), r.reason)],
            plan.explanation)

\* validateRalphResponse(raw, imageWidth, imageHeight)
Validate ==
    /\ valOut = <<>>
    /\ valOut' = <<validateRalphResponse(valIn.raw, valIn.imageWidth, valIn.imageHeight)>>
    /\ UNCHANGED valIn

\* validateRalphResponse(plan, imageWidth, imageHeight) for the plan returned
Revalidate ==
    /\ Len(valOut) = 1
    /\ valOut' = Append(valOut, validateRalphResponse(AsRaw(valOut[1]), valIn.imageWidth,
                                                      valIn.imageHeight))
    /\ UNCHANGED valIn

\* ======================================= the detections of the main context
\* What the face model and the OCR engine return, and the Detections
\* detectFaces and runTextDetection make of it.  Lengths are pixels;
\* confidences are hundredths (a MediaPipe score of 0.3 is 30, a Tesseract
\* confidence of 61 is 61 and becomes the Detection's 0.61).
VARIABLES
    convIn,     \* the image size and the raw output of the face model or the OCR engine
    convOut     \* <<>>, or <<the Detections made of convIn>>

convVars == <<convIn, convOut>>

\* ------------------------------------- the editor's calls of historyStore
VARIABLE
    histIn      \* the last call the editor made on historyStore: the method,
                \* its argument and the state of the store before the call

NoCommand == [type |-> "none", style |-> "none",
              region |-> [x |-> 0, y |-> 0, width |-> 0, height |-> 0], intensity |-> 0]
HistoryCall(op, command, before) == [op |-> op, command |-> command, before |-> before]
NoHistoryCall == HistoryCall("none", NoCommand, InitialHistory)
\* commands the editor pushes
EditorCommands ==
    {[type |-> "rect", style |-> st,
      region |-> [x |-> 0, y |-> 0, width |-> 1, height |-> 1], intensity |-> 50] :
        st \in {"solid", "blur"}}

EditorJoins == UNCHANGED <<sota, sessionKey, currentAbortController, run, image>>

HistoryStorePush(command) ==
    /\ history.version < MaxVersion
    /\ history' = HistoryPush(history, command)
    /\ histIn' = HistoryCall("push", command, history)
    /\ EditorJoins
HistoryStoreUndo ==
    /\ history.version < MaxVersion
    /\ history' = HistoryUndo(history)
    /\ histIn' = HistoryCall("undo", NoCommand, history)
    /\ EditorJoins
HistoryStoreRedo ==
    /\ history.version < MaxVersion
    /\ history' = HistoryRedo(history)
    /\ histIn' = HistoryCall("redo", NoCommand, history)
    /\ EditorJoins
HistoryStoreClear ==
    /\ history' = InitialHistory
    /\ histIn' = HistoryCall("clear", NoCommand, history)
    /\ EditorJoins

\* detection.boundingBox of a FaceDetectorResult: optional
NoBoundingBox == [defined |-> FALSE, originX |-> 0, originY |-> 0, width |-> 0, height |-> 0]
BoundingBox(originX, originY, width, height) ==
    [defined |-> TRUE, originX |-> originX, originY |-> originY, width |-> width,
     height |-> height]
\* one element of result.detections; categories is a list of [score |-> hundredths]
RawFace(boundingBox, categories) == [boundingBox |-> boundingBox, categories |-> categories]
\* one element of result.data.words
Word(confidence, text, x0, y0, x1, y1) ==
    [confidence |-> confidence, text |-> text, bbox |-> [x0 |-> x0, y0 |-> y0, x1 |-> x1, y1 |-> y1]]

BoxedDetection(type, x, y, width, height, confidence) ==
    [type |-> type, bbox |-> [x |-> x, y |-> y, width |-> width, height |-> height],
     confidence |-> confidence]

\* mediapipe-face.ts, lines 113-134: result.detections.map(...)
FaceDetection(detection) ==
    LET bbox == detection.boundingBox IN
    BoxedDetection("face",
                   IF bbox.defined THEN bbox.originX ELSE 0,
                   IF bbox.defined THEN bbox.originY ELSE 0,
                   IF bbox.defined THEN bbox.width ELSE 0,
                   IF bbox.defined THEN bbox.height ELSE 0,
                   IF detection.categories # <<>> THEN detection.categories[1].score ELSE 0)
FaceDetections(detections) == [i \in DOMAIN detections |-> FaceDetection(detections[i])]

\* text.trim().length > 0, for the texts of the model: blanks or letters
TrimmedLength(text) == IF text \in {"", " "} THEN 0 ELSE Len(text)

RECURSIVE TextDetections(_)
\* manager.ts, lines 183-213: the words kept and the Detection of each
TextDetections(words) ==
    IF words = <<>> THEN <<>>
    ELSE LET word == Head(words)
             rest == TextDetections(Tail(words))
         IN IF word.confidence > 60 /\ TrimmedLength(word.text) > 0
            THEN <<BoxedDetection("text", word.bbox.x0, word.bbox.y0,
                                  word.bbox.x1 - word.bbox.x0, word.bbox.y1 - word.bbox.y0,
                                  word.confidence)>> \o rest
            ELSE rest

\* the boxes a face model regresses for a face near the border of the
\* image, or does not report; scores as MediaPipe gives them, from
\* minDetectionConfidence up
RawBoxes ==
    {NoBoundingBox}
    \cup {BoundingBox(x, y, w, h) : x \in {-1, 0, 2}, y \in {0, 1}, w \in {1, 2}, h \in {1, 2}}
RawFaces == {RawFace(b, c) : b \in RawBoxes, c \in {<<>>, <<[score |-> 30]>>, <<[score |-> 100]>>}}
\* the words of an OCR engine: boxes of at least one pixel inside the image
RawWords(imageWidth, imageHeight) ==
    {Word(c, t, x0, y0, x1, y1) :
        c \in {0, 60, 61, 100}, t \in {" ", "ab"},
        x0 \in 0..(imageWidth - 1), y0 \in 0..(imageHeight - 1),
        x1 \in 1..imageWidth, y1 \in 1..imageHeight}
ConvInputs ==
    {[engine |-> "face", image |-> img, raw |-> <<f>>] : img \in Images, f \in RawFaces}
    \cup UNION {{[engine |-> "ocr", image |-> img, raw |-> <<w>>] :
                    w \in {v \in RawWords(Width(img), Height(img)) :
                              v.bbox.x0 < v.bbox.x1 /\ v.bbox.y0 < v.bbox.y1}} :
                 img \in Images}
    \cup {[engine |-> "ocr", image |-> img, raw |-> <<Word(10, "ab", 0, 0, 1, 1),
                                                      Word(90, "ab", 1, 0, 3, 1),
                                                      Word(80, "ab", 0, 1, 2, 2)>>] :
             img \in Images}
    \cup {[engine |-> e, image |-> img, raw |-> <<>>] : e \in {"face", "ocr"}, img \in Images}
IdleConv == [engine |-> "face", image |-> NoImage, raw |-> <<>>]

\* detectFaces / runTextDetection once the model has answered
Convert ==
    /\ convOut = <<>>
    /\ convOut' = <<IF convIn.engine = "face" THEN FaceDetections(convIn.raw)
                    ELSE TextDetections(convIn.raw)>>
    /\ UNCHANGED convIn

\* ===================================================== detection pipeline
\* ------------------------------------------------------------------ bounds
\* Number of request ids startDetection allocates in one execution.
MaxRequests == 1

\* ------------------------------------------------------------ program data
NoRequest == 0
\* `worker` of manager.ts holds no Worker; the Workers are numbered in the
\* order `new Worker` creates them
NoWorker == 0
DetectionTypes == {"face", "text", "license_plate", "document"}
\* the request ids generateRequestId() returns, in the order it returns them
RequestIds == 1..MaxRequests
\* the enabledTypes the user has toggled together before the first run
TypeChoices == {{}, {"license_plate"}, {"face"}, {"face", "text"}}
Backends == {"webgpu"}

VARIABLES
    det,        \* detectionStore state
    mgr,        \* module variables of manager.ts and the next id of generateRequestId
    mp,         \* module variables of mediapipe-face.ts
    wk,         \* module variables of worker.ts
    toWorker,   \* messages posted to the worker, not yet handled by it
    toMain,     \* messages posted by the worker, not yet handled by worker.onmessage
    detRun      \* per request id: the activations of startDetection, runDetection,
                \* runTextDetection and runMediaPipeFaceDetection working for it

detVars == <<det, mgr, mp, wk, toWorker, toMain, detRun>>
vars == <<sota, sessionKey, currentAbortController, run, image, history, cliIn, cliOut,
          valIn, valOut, convIn, convOut, histIn,
          det, mgr, mp, wk, toWorker, toMain, detRun>>

\* ------------------------------------------------------ stores/detection.ts
InitialDetection ==
    [isDetecting |-> FALSE, isDownloading |-> FALSE, downloadProgress |-> 0,
     progress |-> 0, currentStage |-> "", results |-> <<>>, error |-> NoError,
     modelsLoaded |-> [t \in DetectionTypes |-> FALSE], hasUserConsent |-> FALSE,
     enabledTypes |-> DetectionTypes, backend |-> "null"]

DetGiveConsent(d) == [d EXCEPT !.hasUserConsent = TRUE]
DetStartDownload(d) ==
    [d EXCEPT !.isDownloading = TRUE, !.downloadProgress = 0,
              !.currentStage = "Downloading AI models..."]
DetUpdateDownloadProgress(d, progress, stage) ==
    [d EXCEPT !.downloadProgress = progress, !.currentStage = stage]
DetFinishDownload(d) == [d EXCEPT !.isDownloading = FALSE, !.downloadProgress = 100]
DetStartDetection(d) ==
    [d EXCEPT !.isDetecting = TRUE, !.progress = 0, !.currentStage = "Initializing...",
              !.error = NoError, !.results = <<>>]
DetUpdateProgress(d, progress, stage) == [d EXCEPT !.progress = progress, !.currentStage = stage]
MutDetAddResults(d, detections) == [d EXCEPT !.results = detections]
DetAddResults(d, detections) == [d EXCEPT !.results = @ \o detections]
DetFinishDetection(d) ==
    [d EXCEPT !.isDetecting = FALSE, !.progress = 100, !.currentStage = "Complete"]
MutDetSetError(d, error) == [d EXCEPT !.error = error, !.currentStage = "Error"]
DetSetError(d, error) ==
    [d EXCEPT !.isDetecting = FALSE, !.error = error, !.currentStage = "Error"]
DetSetModelLoaded(d, type) == [d EXCEPT !.modelsLoaded[type] = TRUE]
DetSetBackend(d, backend) == [d EXCEPT !.backend = backend]
DetClearResults(d) ==
    [d EXCEPT !.results = <<>>, !.progress = 0, !.downloadProgress = 0,
              !.isDetecting = FALSE, !.isDownloading = FALSE, !.currentStage = "",
              !.error = NoError]
needsModelDownload(d) == \E t \in d.enabledTypes : ~d.modelsLoaded[t]

\* ------------------------------------------------------------- messages
\* A Detection: its type and, in place of its random id, the request it was
\* computed for.
Detection(type, req) == [type |-> type, req |-> req]

\* WorkerRequest.  `req` of a detect message is the call of startDetection
\* that posted it (requestId is what that call read from currentRequestId).
DetectMessage(requestId, enabledTypes, isFirstRun, req) ==
    [type |-> "detect", requestId |-> requestId, enabledTypes |-> enabledTypes,
     isFirstRun |-> isFirstRun, req |-> req]
CancelMessage(requestId) == [type |-> "cancel", requestId |-> requestId]

\* WorkerResponse.  The messages carry no request id; `req` records the
\* activation of runDetection that posted the message and is read by no
\* handler.
Response(type, req) ==
    [type |-> type, req |-> req, progress |-> 0, stage |-> "", detections |-> <<>>,
     modelType |-> "", error |-> ""]
DownloadProgress(req, progress, stage) ==
    [Response("download_progress", req) EXCEPT !.progress = progress, !.stage = stage]
Progress(req, progress, stage) ==
    [Response("progress", req) EXCEPT !.progress = progress, !.stage = stage]
Results(req, detections) == [Response("results", req) EXCEPT !.detections = detections]
ModelLoaded(req, modelType) == [Response("model_loaded", req) EXCEPT !.modelType = modelType]

\* -------------------------------------------------- worker.ts: runDetection
\* What an activation of runDetection does in one task: the module
\* variables, the messages it posts and where it waits next.
WorkerWorld(w, out, pc) == [wk |-> w, out |-> out, pc |-> pc]
Post(ww, m) == [ww EXCEPT !.out = Append(@, m)]

\* the object detectors of runDetection, in the order it runs them
ObjectStage(type) ==
    IF type = "license_plate"
    THEN [detector |-> "plateDetector", next |-> "document",
          pcLoad |-> "plate_load", pcInfer |-> "plate_infer",
          download |-> 35, downloadStage |-> "Downloading license plate detection model (~25MB)...",
          load |-> 40, loadStage |-> "Loading license plate detection model...",
          detect |-> 50, detectStage |-> "Detecting license plates..."]
    ELSE [detector |-> "objectDetector", next |-> "finish",
          pcLoad |-> "doc_load", pcInfer |-> "doc_infer",
          download |-> 50, downloadStage |-> "Downloading document detection model (~10MB)...",
          load |-> 60, loadStage |-> "Loading document detection model...",
          detect |-> 70, detectStage |-> "Detecting documents..."]
StageOfPc(pc) == IF pc \in {"plate_load", "plate_infer"} THEN "license_plate" ELSE "document"

\* the end of runDetection, lines 746-767
FinishRun(ww, rn, req) ==
    LET a == IF rn.isFirstRun /\ ~ww.wk.isCancelled
             THEN Post(Post(ww, DownloadProgress(req, 85, "AI models downloaded successfully!")),
                       Response("download_complete", req))
             ELSE ww
        b == IF "text" \in rn.enabledTypes /\ ~ww.wk.isCancelled
             THEN Post(a, Response("run_text_detection", req))
             ELSE a
        c == IF ~ww.wk.isCancelled
             THEN Post(Post(b, Progress(req, 100, "Detection complete")), Response("complete", req))
             ELSE b
    IN [c EXCEPT !.wk.currentRequestId = NoRequest, !.pc = "done"]

RECURSIVE StageFrom(_, _, _, _)

\* detectLicensePlates / detectDocuments once the detector is there: up to
\* the inference, or back in runDetection with no detections
ObjectsLoaded(type, ww, rn, req) ==
    LET st == ObjectStage(type) IN
    IF ww.wk.isCancelled THEN StageFrom(st.next, ww, rn, req)
    ELSE [Post(ww, Progress(req, st.detect, st.detectStage)) EXCEPT !.pc = st.pcInfer]

\* detectLicensePlates / detectDocuments from its first line
DetectObjects(type, ww, rn, req) ==
    LET st == ObjectStage(type)
        needsDownload == ~ww.wk[st.detector]
        a == IF needsDownload /\ rn.isFirstRun
             THEN Post(ww, DownloadProgress(req, st.download, st.downloadStage))
             ELSE Post(ww, Progress(req, st.load, st.loadStage))
    IN IF needsDownload THEN [a EXCEPT !.pc = st.pcLoad] ELSE ObjectsLoaded(type, a, rn, req)

\* runDetection from the stage for `type` on
StageFrom(type, ww, rn, req) ==
    IF type = "finish" THEN FinishRun(ww, rn, req)
    ELSE IF type \in rn.enabledTypes /\ ~ww.wk.isCancelled THEN DetectObjects(type, ww, rn, req)
    ELSE StageFrom(ObjectStage(type).next, ww, rn, req)

\* runDetection(message) up to its first wait, lines 708-727
runDetection(w, m, rn) ==
    LET w1 == [w EXCEPT !.currentRequestId = m.requestId, !.isCancelled = FALSE]
        a == WorkerWorld(w1, <<>>, "none")
        b == IF m.isFirstRun
             THEN Post(a, DownloadProgress(m.req, 0, "Preparing to download AI models..."))
             ELSE Post(a, Progress(m.req, 0, "Starting detection..."))
        c == IF "face" \in m.enabledTypes
             THEN Post(b, Response("run_mediapipe_face_detection", m.req))
             ELSE b
    IN StageFrom("license_plate", c, rn, m.req)

\* the pipeline(...) promise of an activation settles
ModelSettles(type, ok, ww, rn, req) ==
    IF ok
    THEN ObjectsLoaded(type,
             Post([ww EXCEPT !.wk[ObjectStage(type).detector] = TRUE], ModelLoaded(req, type)),
             rn, req)
    ELSE StageFrom(ObjectStage(type).next, ww, rn, req)

\* the inference of an activation settles with `found` detections (or throws)
InferenceSettles(type, found, ww, rn, req) ==
    LET a == IF found # <<>> /\ ~ww.wk.isCancelled THEN Post(ww, Results(req, found)) ELSE ww
    IN StageFrom(ObjectStage(type).next, a, rn, req)

\* ---------------------------------------------------- activations by request
\* start: "unused", "init" (startDetection waits for initWorker), "posted"
\* enabledTypes, isFirstRun: state.enabledTypes and needsDownload as
\*   startDetection read them; the detect message carries them to runDetection
\* wpc: where runDetection waits: "none", "plate_load", "plate_infer",
\*   "doc_load", "doc_infer", "done"
\* text: runTextDetection: "none", "create", "recognize", "done"
\* face: runMediaPipeFaceDetection: "none", "wasm", "create", "bitmap", "done"
\* faceLoaded: state.modelsLoaded.face as runMediaPipeFaceDetection read it
\* logged: the detectors whose exception runMediaPipeFaceDetection or
\*   runTextDetection caught and wrote to the console
\* completeSeen: worker.onmessage has handled the activation's complete message
\* finished: finishDetection() ran while this request was the current one
UnusedDetRun ==
    [start |-> "unused", enabledTypes |-> {}, isFirstRun |-> FALSE, wpc |-> "none",
     text |-> "none", face |-> "none", faceLoaded |-> FALSE, logged |-> {},
     completeSeen |-> FALSE, finished |-> FALSE]

\* what the awaited libraries can answer
ModelOutcomes == BOOLEAN
InferenceOutcomes == {"found", "none"}
FaceOutcomes == BOOLEAN
Found(outcome, type, req) == IF outcome = "found" THEN <<Detection(type, req)>> ELSE <<>>

\* ------------------------------------------------------ worker.ts: actions
\* self.onmessage, lines 771-786, with runDetection up to its first wait
WorkerReceives ==
    /\ toWorker # <<>>
    /\ toWorker' = Tail(toWorker)
    /\ LET m == Head(toWorker) IN
       IF m.type = "detect"
       THEN \E ww \in {runDetection(wk, m, detRun[m.req])} :
               /\ wk' = ww.wk
               /\ toMain' = toMain \o ww.out
               /\ detRun' = [detRun EXCEPT ![m.req].wpc = ww.pc]
       ELSE IF wk.currentRequestId = m.requestId
       THEN /\ wk' = [wk EXCEPT !.isCancelled = TRUE]
            /\ toMain' = Append(toMain, Response("cancelled", m.requestId))
            /\ UNCHANGED detRun
       ELSE UNCHANGED <<wk, toMain, detRun>>
    /\ UNCHANGED <<det, mgr, mp, loopVars>>

\* an activation of runDetection goes on after the promise it waited for
WorkerResumes(req, outcome) ==
    /\ detRun[req].wpc \in {"plate_load", "plate_infer", "doc_load", "doc_infer"}
    /\ LET pc == detRun[req].wpc
           type == StageOfPc(pc)
           ww == WorkerWorld(wk, <<>>, pc)
       IN IF pc \in {"plate_load", "doc_load"}
          THEN /\ outcome \in {"ok", "fail"}
               /\ \E after \in {ModelSettles(type, outcome = "ok", ww, detRun[req], req)} :
                     /\ wk' = after.wk
                     /\ toMain' = toMain \o after.out
                     /\ detRun' = [detRun EXCEPT ![req].wpc = after.pc]
          ELSE /\ outcome \in {"found", "none"}
               /\ \E after \in {InferenceSettles(type, Found(outcome, type, req), ww, detRun[req], req)} :
                     /\ wk' = after.wk
                     /\ toMain' = toMain \o after.out
                     /\ detRun' = [detRun EXCEPT ![req].wpc = after.pc]
    /\ UNCHANGED <<det, mgr, mp, toWorker, loopVars>>

\* ------------------------------------------------------------- manager.ts
\* finishDetection(), lines 257-260
FinishDetection(d, m, dr) ==
    [det |-> DetFinishDetection(d),
     mgr |-> [m EXCEPT !.currentRequestId = NoRequest],
     detRun |-> IF m.currentRequestId = NoRequest THEN dr
                ELSE [dr EXCEPT ![m.currentRequestId].finished = TRUE]]

\* runTextDetection() up to its first wait, lines 153-167 and initTesseract 130-135
runTextDetection(req) ==
    IF "text" \notin det.enabledTypes \/ image = NoImage
    THEN \E w \in {FinishDetection(det, mgr, detRun)} :
            det' = w.det /\ mgr' = w.mgr /\ detRun' = w.detRun
    ELSE IF mgr.tesseractWorker /\ mgr.tesseractReady
    THEN /\ detRun' = [detRun EXCEPT ![req].text = "recognize"]
         /\ UNCHANGED <<det, mgr>>
    ELSE /\ det' = DetUpdateProgress(det, 75, "Loading text recognition model...")
         /\ detRun' = [detRun EXCEPT ![req].text = "create"]
         /\ UNCHANGED mgr

\* runMediaPipeFaceDetection() up to its first wait, lines 227-241, with
\* detectFaces and initFaceDetector of mediapipe-face.ts
runMediaPipeFaceDetection(req) ==
    IF "face" \notin det.enabledTypes \/ image = NoImage
    THEN UNCHANGED <<det, mp, detRun>>
    ELSE IF mp.faceDetector
    THEN /\ det' = DetUpdateProgress(det, 60, "Detecting faces...")
         /\ detRun' = [detRun EXCEPT ![req].face = "bitmap",
                                     ![req].faceLoaded = det.modelsLoaded["face"]]
         /\ UNCHANGED mp
    ELSE IF mp.isInitializing
    THEN /\ detRun' = [detRun EXCEPT ![req].logged = @ \cup {"face"}]
         /\ UNCHANGED <<det, mp>>
    ELSE /\ mp' = [mp EXCEPT !.isInitializing = TRUE]
         /\ det' = DetUpdateProgress(det, 10, "Loading MediaPipe vision WASM...")
         /\ detRun' = [detRun EXCEPT ![req].face = "wasm",
                                     ![req].faceLoaded = det.modelsLoaded["face"]]

\* worker.onmessage, lines 72-119: the oldest message is m
OnMessage(m) ==
    /\ toMain # <<>>
    /\ m = Head(toMain)
    /\ toMain' = Tail(toMain)
    /\ CASE m.type = "download_progress" ->
               /\ det' = DetUpdateDownloadProgress(det, m.progress, m.stage)
               /\ UNCHANGED <<mgr, mp, detRun>>
         [] m.type = "download_complete" ->
               /\ det' = DetFinishDownload(det)
               /\ mgr' = [mgr EXCEPT !.isFirstRun = FALSE]
               /\ UNCHANGED <<mp, detRun>>
         [] m.type = "progress" ->
               /\ det' = DetUpdateProgress(det, m.progress, m.stage)
               /\ UNCHANGED <<mgr, mp, detRun>>
         [] m.type = "results" ->
               /\ det' = DetAddResults(det, m.detections)
               /\ UNCHANGED <<mgr, mp, detRun>>
         [] m.type = "model_loaded" ->
               /\ det' = DetSetModelLoaded(det, m.modelType)
               /\ UNCHANGED <<mgr, mp, detRun>>
         [] m.type = "complete" ->
               /\ detRun' = [detRun EXCEPT ![m.req].completeSeen = TRUE]
               /\ UNCHANGED <<det, mgr, mp>>
         [] m.type = "run_text_detection" ->
               /\ runTextDetection(m.req)
               /\ UNCHANGED mp
         [] m.type = "run_mediapipe_face_detection" ->
               /\ runMediaPipeFaceDetection(m.req)
               /\ UNCHANGED mgr
         [] m.type = "error" ->
               /\ det' = DetSetError(det, m.error)
               /\ UNCHANGED <<mgr, mp, detRun>>
         [] m.type = "cancelled" ->
               /\ det' = DetClearResults(det)
               /\ UNCHANGED <<mgr, mp, detRun>>
    /\ UNCHANGED <<wk, toWorker, loopVars>>

WorkerMessage == toMain # <<>> /\ OnMessage(Head(toMain))

\* worker.onerror, lines 115-118: an error event of the Worker (its script
\* fails to load, an exception escapes in it)
WorkerOnError ==
    /\ mgr.worker # NoWorker
    /\ det' = DetSetError(det, "Detection worker crashed")
    /\ UNCHANGED <<mgr, mp, wk, toWorker, toMain, detRun, loopVars>>

\* runMediaPipeFaceDetection goes on after the promise it waited for:
\* FilesetResolver.forVisionTasks, FaceDetector.createFromOptions,
\* createImageBitmap and detect
FaceResumes(req, ok, outcome) ==
    /\ detRun[req].face \in {"wasm", "create", "bitmap"}
    /\ LET pc == detRun[req].face IN
       IF pc = "wasm"
       THEN /\ outcome = "none"
            /\ IF ok
               THEN /\ det' = DetUpdateProgress(det, 50, "Initializing face detector (~260KB)...")
                    /\ detRun' = [detRun EXCEPT ![req].face = "create"]
                    /\ UNCHANGED mp
               ELSE /\ mp' = [mp EXCEPT !.isInitializing = FALSE]
                    /\ detRun' = [detRun EXCEPT ![req].face = "done",
                                                ![req].logged = @ \cup {"face"}]
                    /\ UNCHANGED det
       ELSE IF pc = "create"
       THEN /\ outcome = "none"
            /\ IF ok
               THEN /\ mp' = [mp EXCEPT !.faceDetector = TRUE, !.isInitializing = FALSE]
                    /\ det' = DetUpdateProgress(
                                 DetUpdateProgress(det, 100, "Face detector ready"),
                                 60, "Detecting faces...")
                    /\ detRun' = [detRun EXCEPT ![req].face = "bitmap"]
               ELSE /\ mp' = [mp EXCEPT !.isInitializing = FALSE]
                    /\ detRun' = [detRun EXCEPT ![req].face = "done",
                                                ![req].logged = @ \cup {"face"}]
                    /\ UNCHANGED det
       ELSE /\ detRun' = [detRun EXCEPT ![req].face = "done",
                                        ![req].logged = IF ok THEN @ ELSE @ \cup {"face"}]
            /\ UNCHANGED mp
            /\ IF ok
               THEN LET d1 == DetUpdateProgress(det, 90, "Processing results...")
                        faceDetections == Found(outcome, "face", req)
                        d2 == IF faceDetections # <<>> THEN DetAddResults(d1, faceDetections) ELSE d1
                    IN det' = IF ~detRun[req].faceLoaded THEN DetSetModelLoaded(d2, "face") ELSE d2
               ELSE outcome = "none" /\ UNCHANGED det
    /\ UNCHANGED <<mgr, wk, toWorker, toMain, loopVars>>

\* runTextDetection goes on after the promise it waited for:
\* Tesseract.createWorker (initTesseract, lines 135-149) and worker.recognize
TextResumes(req, ok, outcome) ==
    /\ detRun[req].text \in {"create", "recognize"}
    /\ LET pc == detRun[req].text IN
       IF pc = "create" /\ ok
       THEN /\ outcome = "none"
            /\ mgr' = [mgr EXCEPT !.tesseractWorker = TRUE, !.tesseractReady = TRUE]
            /\ det' = DetSetModelLoaded(det, "text")
            /\ detRun' = [detRun EXCEPT ![req].text = "recognize"]
       ELSE /\ ~ok => outcome = "none"
            /\ LET textDetections == Found(outcome, "text", req)
                   d1 == IF textDetections # <<>> THEN DetAddResults(det, textDetections) ELSE det
               IN \E w \in {FinishDetection(d1, mgr,
                                             [detRun EXCEPT ![req].text = "done",
                                                            ![req].logged = IF ok THEN @
                                                                            ELSE @ \cup {"text"}])} :
                     det' = w.det /\ mgr' = w.mgr /\ detRun' = w.detRun
    /\ UNCHANGED <<mp, wk, toWorker, toMain, loopVars>>

\* startDetection(), lines 268-319.  With a worker at hand initWorker()
\* answers in the same task; without one the call waits for detectBackend().
StartDetection ==
    /\ UNCHANGED <<mp, wk, toMain, loopVars>>
    /\ IF image = NoImage
       THEN /\ det' = DetSetError(det, "No image loaded")
            /\ UNCHANGED <<mgr, toWorker, detRun>>
       ELSE IF det.isDetecting \/ det.isDownloading
       THEN UNCHANGED <<det, mgr, toWorker, detRun>>
       ELSE IF det.enabledTypes = {}
       THEN /\ det' = DetSetError(det, "No detection types enabled")
            /\ UNCHANGED <<mgr, toWorker, detRun>>
       ELSE IF needsModelDownload(det) /\ ~det.hasUserConsent
       THEN /\ det' = DetSetError(det, "Please confirm model download first")
            /\ UNCHANGED <<mgr, toWorker, detRun>>
       ELSE /\ mgr.nextRequestId \in DOMAIN detRun
            /\ LET needsDownload == needsModelDownload(det)
                   req == mgr.nextRequestId
               IN /\ det' = DetStartDetection(IF needsDownload THEN DetStartDownload(det) ELSE det)
                  /\ mgr' = [mgr EXCEPT !.currentRequestId = req, !.nextRequestId = req + 1]
                  /\ detRun' = [detRun EXCEPT ![req].start = IF mgr.worker # NoWorker THEN "posted" ELSE "init",
                                              ![req].enabledTypes = det.enabledTypes,
                                              ![req].isFirstRun = needsDownload]
                  /\ toWorker' = IF mgr.worker # NoWorker
                                 THEN Append(toWorker,
                                        DetectMessage(req, det.enabledTypes, needsDownload, req))
                                 ELSE toWorker

\* initWorker(), lines 59-127, once detectBackend() has answered: it creates
\* a Worker whatever `worker` holds by then; and the postMessage of
\* startDetection, lines 307-313
InitWorkerSettles(req, backend) ==
    /\ detRun[req].start = "init"
    /\ det' = DetSetBackend(det, backend)
    /\ mgr' = [mgr EXCEPT !.worker = @ + 1]
    /\ toWorker' = Append(toWorker,
                     DetectMessage(mgr.currentRequestId, detRun[req].enabledTypes,
                                   detRun[req].isFirstRun, req))
    /\ detRun' = [detRun EXCEPT ![req].start = "posted"]
    /\ UNCHANGED <<mp, wk, toMain, loopVars>>

\* cancelDetection(), lines 322-330
CancelDetection ==
    /\ toWorker' = IF mgr.worker # NoWorker /\ mgr.currentRequestId # NoRequest
                   THEN Append(toWorker, CancelMessage(mgr.currentRequestId))
                   ELSE toWorker
    /\ mgr' = [mgr EXCEPT !.currentRequestId = NoRequest]
    /\ UNCHANGED <<det, mp, wk, toMain, detRun, loopVars>>

\* DetectionPanel.svelte handleClosePanel(): cancelDetection();
\* detectionStore.clearResults()
handleClosePanel ==
    /\ toWorker' = IF mgr.worker # NoWorker /\ mgr.currentRequestId # NoRequest
                   THEN Append(toWorker, CancelMessage(mgr.currentRequestId))
                   ELSE toWorker
    /\ mgr' = [mgr EXCEPT !.currentRequestId = NoRequest]
    /\ det' = DetClearResults(det)
    /\ UNCHANGED <<mp, wk, toMain, detRun, loopVars>>

GiveConsent ==
    /\ det' = DetGiveConsent(det)
    /\ UNCHANGED <<mgr, mp, wk, toWorker, toMain, detRun, loopVars>>

\* ------------------------------------------------ detection: initial state
InitialManager ==
    [isFirstRun |-> TRUE, worker |-> NoWorker, currentRequestId |-> NoRequest,
     tesseractWorker |-> FALSE, tesseractReady |-> FALSE, nextRequestId |-> 1]
InitialMediaPipe == [faceDetector |-> FALSE, isInitializing |-> FALSE]
InitialWorker ==
    [objectDetector |-> FALSE, plateDetector |-> FALSE, currentRequestId |-> NoRequest,
     isCancelled |-> FALSE]

\* the detection side before the first startDetection, with enabledTypes as
\* the user left them
InitDetection(enabledTypes) ==
    /\ det = [InitialDetection EXCEPT !.enabledTypes = enabledTypes]
    /\ mgr = InitialManager
    /\ mp = InitialMediaPipe
    /\ wk = InitialWorker
    /\ toWorker = <<>>
    /\ toMain = <<>>
    /\ detRun = [q \in RequestIds |-> UnusedDetRun]

\* ------------------------------------------------------- specifications
InitLoop ==
    /\ sota = SotaReset(sessionKey)
    /\ currentAbortController = NoCtl
    /\ run = [r \in Runs |-> UnusedRun]
    /\ image = NoImage
    /\ history = InitialHistory
    /\ histIn = NoHistoryCall

InitValidatorIdle ==
    /\ valIn = IdleValidator
    /\ valOut = <<>>
    /\ convIn = IdleConv
    /\ convOut = <<>>

Init ==
    /\ sessionKey \in {NoKey} \cup Keys
    /\ InitLoop
    /\ cliIn = IdleClient
    /\ cliOut = NotCalled
    /\ InitValidatorIdle
    /\ InitDetection(DetectionTypes)

NextLoop ==
    \/ StartRalphLisaLoop /\ UNCHANGED <<cliVars, valVars, convVars, histIn, detVars>>
    \/ \E r \in Runs : EvaluateSettles(r) /\ UNCHANGED <<cliVars, valVars, convVars, histIn, detVars>>
    \/ \E r \in Runs : PlanSettles(r) /\ UNCHANGED <<cliVars, valVars, convVars, histIn, detVars>>
    \/ CancelRalphLisaLoop /\ UNCHANGED <<cliVars, valVars, convVars, histIn, detVars>>
    \/ \E k \in Keys : SetApiKey(k) /\ UNCHANGED <<cliVars, valVars, convVars, histIn, detVars>>
    \/ ClearApiKey /\ UNCHANGED <<cliVars, valVars, convVars, histIn, detVars>>
    \/ \E x \in StepInputs : SetMaxSteps(x) /\ UNCHANGED <<cliVars, valVars, convVars, histIn, detVars>>
    \/ Reset /\ UNCHANGED <<cliVars, valVars, convVars, histIn, detVars>>
    \/ \E img \in Images : ImageLoad(img) /\ UNCHANGED <<cliVars, valVars, convVars, histIn, detVars>>
    \/ handleClear /\ UNCHANGED <<cliVars, valVars, convVars, histIn, detVars>>

SpecLoop == Init /\ [][NextLoop]_vars

InitClient ==
    /\ sessionKey = NoKey
    /\ InitLoop
    /\ cliIn \in {[caller |-> c, sc |-> sc, imageData |-> img] :
                    c \in {"lisa", "ralph", "client"}, sc \in ClientScenarios,
                    img \in Images}
    /\ cliOut = NotCalled
    /\ InitValidatorIdle
    /\ InitDetection(DetectionTypes)

NextClient == ClientCall /\ UNCHANGED <<valVars, convVars, histIn, detVars>>

SpecClient == InitClient /\ [][NextClient]_vars

InitDetector ==
    /\ sessionKey = NoKey
    /\ InitLoop
    /\ cliIn = IdleClient
    /\ cliOut = NotCalled
    /\ InitValidatorIdle
    /\ \E enabledTypes \in TypeChoices : InitDetection(enabledTypes)

NextDetector ==
    \/ StartDetection /\ UNCHANGED <<cliVars, valVars, convVars, histIn>>
    \/ \E req \in RequestIds, backend \in Backends :
          InitWorkerSettles(req, backend) /\ UNCHANGED <<cliVars, valVars, convVars, histIn>>
    \/ CancelDetection /\ UNCHANGED <<cliVars, valVars, convVars, histIn>>
    \/ GiveConsent /\ UNCHANGED <<cliVars, valVars, convVars, histIn>>
    \/ WorkerMessage /\ UNCHANGED <<cliVars, valVars, convVars, histIn>>
    \/ \E req \in RequestIds, ok \in FaceOutcomes, outcome \in InferenceOutcomes :
          FaceResumes(req, ok, outcome) /\ UNCHANGED <<cliVars, valVars, convVars, histIn>>
    \/ \E req \in RequestIds, ok \in ModelOutcomes, outcome \in InferenceOutcomes :
          TextResumes(req, ok, outcome) /\ UNCHANGED <<cliVars, valVars, convVars, histIn>>
    \/ WorkerReceives /\ UNCHANGED <<cliVars, valVars, convVars, histIn>>
    \/ \E req \in RequestIds, outcome \in {"ok", "fail"} \cup InferenceOutcomes :
          WorkerResumes(req, outcome) /\ UNCHANGED <<cliVars, valVars, convVars, histIn>>
    \/ \E img \in Images : ImageLoad(img) /\ UNCHANGED <<cliVars, valVars, convVars, histIn, detVars>>
    \/ handleClear /\ UNCHANGED <<cliVars, valVars, convVars, histIn, detVars>>

SpecDetector == InitDetector /\ [][NextDetector]_vars

\* ---- the detection pipeline with a Worker that can raise an error event
NextCrash ==
    \/ StartDetection /\ UNCHANGED <<cliVars, valVars, convVars, histIn>>
    \/ \E req \in RequestIds, backend \in Backends :
          InitWorkerSettles(req, backend) /\ UNCHANGED <<cliVars, valVars, convVars, histIn>>
    \/ GiveConsent /\ UNCHANGED <<cliVars, valVars, convVars, histIn>>
    \/ WorkerMessage /\ UNCHANGED <<cliVars, valVars, convVars, histIn>>
    \/ WorkerOnError /\ UNCHANGED <<cliVars, valVars, convVars, histIn>>
    \/ \E req \in RequestIds, ok \in FaceOutcomes, outcome \in InferenceOutcomes :
          FaceResumes(req, ok, outcome) /\ UNCHANGED <<cliVars, valVars, convVars, histIn>>
    \/ \E req \in RequestIds, ok \in ModelOutcomes, outcome \in InferenceOutcomes :
          TextResumes(req, ok, outcome) /\ UNCHANGED <<cliVars, valVars, convVars, histIn>>
    \/ WorkerReceives /\ UNCHANGED <<cliVars, valVars, convVars, histIn>>
    \/ \E req \in RequestIds, outcome \in {"ok", "fail"} \cup InferenceOutcomes :
          WorkerResumes(req, outcome) /\ UNCHANGED <<cliVars, valVars, convVars, histIn>>
    \/ \E img \in Images : ImageLoad(img) /\ UNCHANGED <<cliVars, valVars, convVars, histIn, detVars>>

SpecCrash == InitDetector /\ [][NextCrash]_vars

\* ---- the detection panel: two runs of the face and text detectors, the
\* panel closed and the detection started again at any time
PanelRequests == {1, 2}
PanelTypes == {"face", "text"}

\* The model has the channel of one Worker: it follows an execution until a
\* second Worker exists.
OneExecutor == mgr.worker \in {NoWorker, 1}

InitPanel ==
    /\ sessionKey = NoKey
    /\ InitLoop
    /\ cliIn = IdleClient
    /\ cliOut = NotCalled
    /\ InitValidatorIdle
    /\ det = [InitialDetection EXCEPT !.enabledTypes = PanelTypes]
    /\ mgr = InitialManager
    /\ mp = InitialMediaPipe
    /\ wk = InitialWorker
    /\ toWorker = <<>>
    /\ toMain = <<>>
    /\ detRun = [q \in PanelRequests |-> UnusedDetRun]

NextPanel ==
    \/ OneExecutor /\ StartDetection /\ UNCHANGED <<cliVars, valVars, convVars, histIn>>
    \/ \E req \in PanelRequests, backend \in Backends :
          OneExecutor /\ InitWorkerSettles(req, backend) /\ UNCHANGED <<cliVars, valVars, convVars, histIn>>
    \/ OneExecutor /\ CancelDetection /\ UNCHANGED <<cliVars, valVars, convVars, histIn>>
    \/ OneExecutor /\ handleClosePanel /\ UNCHANGED <<cliVars, valVars, convVars, histIn>>
    \/ OneExecutor /\ GiveConsent /\ UNCHANGED <<cliVars, valVars, convVars, histIn>>
    \/ OneExecutor /\ WorkerMessage /\ UNCHANGED <<cliVars, valVars, convVars, histIn>>
    \/ \E req \in PanelRequests, ok \in FaceOutcomes, outcome \in InferenceOutcomes :
          OneExecutor /\ FaceResumes(req, ok, outcome) /\ UNCHANGED <<cliVars, valVars, convVars, histIn>>
    \/ \E req \in PanelRequests, ok \in ModelOutcomes, outcome \in InferenceOutcomes :
          OneExecutor /\ TextResumes(req, ok, outcome) /\ UNCHANGED <<cliVars, valVars, convVars, histIn>>
    \/ OneExecutor /\ WorkerReceives /\ UNCHANGED <<cliVars, valVars, convVars, histIn>>
    \/ \E img \in Images : ImageLoad(img) /\ UNCHANGED <<cliVars, valVars, convVars, histIn, detVars>>

SpecPanel == InitPanel /\ [][NextPanel]_vars

\* the loop while the user replaces the image: a second, smaller image
SmallImages == {"small"}

InitApply ==
    /\ sessionKey \in Keys
    /\ InitLoop
    /\ cliIn = IdleClient
    /\ cliOut = NotCalled
    /\ InitValidatorIdle
    /\ InitDetection(DetectionTypes)

NextApply ==
    \/ StartRalphLisaLoop /\ UNCHANGED <<cliVars, valVars, convVars, histIn, detVars>>
    \/ \E r \in Runs : EvaluateSettles(r) /\ UNCHANGED <<cliVars, valVars, convVars, histIn, detVars>>
    \/ \E r \in Runs : PlanSettles(r) /\ UNCHANGED <<cliVars, valVars, convVars, histIn, detVars>>
    \/ \E x \in StepInputs : SetMaxSteps(x) /\ UNCHANGED <<cliVars, valVars, convVars, histIn, detVars>>
    \/ \E img \in Images \cup SmallImages :
          ImageLoad(img) /\ UNCHANGED <<cliVars, valVars, convVars, histIn, detVars>>
    \/ handleClear /\ UNCHANGED <<cliVars, valVars, convVars, histIn, detVars>>

SpecApply == InitApply /\ [][NextApply]_vars

\* ---- the undo history under the editor's calls
NextHistory ==
    \/ \E c \in EditorCommands :
          HistoryStorePush(c) /\ UNCHANGED <<cliVars, valVars, convVars, detVars>>
    \/ HistoryStoreUndo /\ UNCHANGED <<cliVars, valVars, convVars, detVars>>
    \/ HistoryStoreRedo /\ UNCHANGED <<cliVars, valVars, convVars, detVars>>
    \/ HistoryStoreClear /\ UNCHANGED <<cliVars, valVars, convVars, detVars>>

SpecHistory == InitApply /\ [][NextHistory]_vars

\* ---- the steps of one run: evaluations with and without leaks, a target
\* above the excellent score, plans of three redactions any of which may
\* fail to apply
StepTargets == {95}
StepRawEvaluations == {<<50, 0>>, <<92, 1>>, <<50, 1>>, <<-10, 1>>, <<120, 1>>}
SecondRawRedaction ==
    RawRedaction("pixelate", Num(0), Num(2), Num(2), Num(2), Num(100), "plate")
ThirdRawRedaction ==
    RawRedaction("solid", Num(4), Num(0), Num(2), Num(4), Num(120), "text")
StepPlans ==
    {RawPlan(TRUE, <<LoopRawRedaction, SecondRawRedaction, ThirdRawRedaction>>, "three"),
     RawPlan(TRUE, <<>>, "nothing")}
StepEvalScenarios == LisaReplies({200}, {FALSE}, StepRawEvaluations)
StepPlanScenarios == RalphReplies({200}, {FALSE}, StepPlans)
\* the redactions of a plan whose application throws: none, the second,
\* the first and the third, all
StepFailChoices ==
    UNION {{{}, {rs[k] : k \in DOMAIN rs \cap {2}}, {rs[k] : k \in DOMAIN rs \cap {1, 3}}, Range(rs)} :
              rs \in {validateRalphResponse(p, Width(img), Height(img)).redactions :
                         p \in StepPlans, img \in Images}}

StepEvaluate(r) ==
    /\ \E sc \in StepEvalScenarios : EvaluateSettlesAs(r, sc)
    /\ UNCHANGED <<cliVars, valVars, convVars, histIn, detVars>>
StepPlan(r) ==
    /\ \E sc \in StepPlanScenarios, fails \in StepFailChoices : PlanSettlesAs(r, sc, fails)
    /\ UNCHANGED <<cliVars, valVars, convVars, histIn, detVars>>

\* the steps of one run are followed: no run has started yet
NoRunYet == \A r \in Runs : run[r].pc = "unused"

NextSteps ==
    \/ NoRunYet /\ StartRalphLisaLoop /\ UNCHANGED <<cliVars, valVars, convVars, histIn, detVars>>
    \/ \E r \in Runs : StepEvaluate(r)
    \/ \E r \in Runs : StepPlan(r)
    \/ \E x \in StepInputs : SetMaxSteps(x) /\ UNCHANGED <<cliVars, valVars, convVars, histIn, detVars>>
    \/ \E t \in StepTargets : SetTargetScore(t) /\ UNCHANGED <<cliVars, valVars, convVars, histIn, detVars>>
    \/ \E img \in Images : ImageLoad(img) /\ UNCHANGED <<cliVars, valVars, convVars, histIn, detVars>>

SpecSteps == InitApply /\ [][NextSteps]_vars

\* ---- one run whose requests fail in every kind
KeyErrorStatuses == {401, 429, 500}
KeyFailures(aborted) ==
    (IF aborted THEN {AbortScenario} ELSE {FailScenario})
    \cup ErrorResponses(KeyErrorStatuses, {"other"})
    \cup BadBodies({200}, {FALSE})
KeyEvaluate(r) ==
    /\ \E sc \in KeyFailures(run[r].aborted) \cup StepEvalScenarios : EvaluateSettlesAs(r, sc)
    /\ UNCHANGED <<cliVars, valVars, convVars, histIn, detVars>>
KeyPlan(r) ==
    /\ \E sc \in KeyFailures(run[r].aborted) \cup StepPlanScenarios : PlanSettlesAs(r, sc, {})
    /\ UNCHANGED <<cliVars, valVars, convVars, histIn, detVars>>

NextKeys ==
    \/ NoRunYet /\ StartRalphLisaLoop /\ UNCHANGED <<cliVars, valVars, convVars, histIn, detVars>>
    \/ \E r \in Runs : KeyEvaluate(r)
    \/ \E r \in Runs : KeyPlan(r)
    \/ CancelRalphLisaLoop /\ UNCHANGED <<cliVars, valVars, convVars, histIn, detVars>>
    \/ \E x \in StepInputs : SetMaxSteps(x) /\ UNCHANGED <<cliVars, valVars, convVars, histIn, detVars>>
    \/ \E img \in Images : ImageLoad(img) /\ UNCHANGED <<cliVars, valVars, convVars, histIn, detVars>>

SpecKeys == InitApply /\ [][NextKeys]_vars

\* the loop when every request settles; a reply may also be the JSON null
LiveEvaluate(r) ==
    /\ \E sc \in EvalScenarios(run[r].aborted) \cup {NullReply} : EvaluateSettlesAs(r, sc)
    /\ UNCHANGED <<cliVars, valVars, convVars, histIn, detVars>>
LivePlan(r) ==
    /\ \E sc \in PlanScenarios(run[r].aborted) \cup {NullReply} : PlanSettlesAs(r, sc, {})
    /\ UNCHANGED <<cliVars, valVars, convVars, histIn, detVars>>

NextLive ==
    \/ StartRalphLisaLoop /\ UNCHANGED <<cliVars, valVars, convVars, histIn, detVars>>
    \/ \E r \in Runs : LiveEvaluate(r)
    \/ \E r \in Runs : LivePlan(r)
    \/ CancelRalphLisaLoop /\ UNCHANGED <<cliVars, valVars, convVars, histIn, detVars>>
    \/ \E x \in StepInputs : SetMaxSteps(x) /\ UNCHANGED <<cliVars, valVars, convVars, histIn, detVars>>
    \/ \E img \in Images : ImageLoad(img) /\ UNCHANGED <<cliVars, valVars, convVars, histIn, detVars>>
    \/ handleClear /\ UNCHANGED <<cliVars, valVars, convVars, histIn, detVars>>

\* every fetch settles: a pending request of a run is answered or fails
SpecLive ==
    /\ InitApply
    /\ [][NextLive]_vars
    /\ \A r \in Runs : WF_vars(LiveEvaluate(r)) /\ WF_vars(LivePlan(r))

InitValidator ==
    /\ sessionKey = NoKey
    /\ InitLoop
    /\ cliIn = IdleClient
    /\ cliOut = NotCalled
    /\ valIn \in ValidatorInputs
    /\ valOut = <<>>
    /\ convIn = IdleConv
    /\ convOut = <<>>
    /\ InitDetection(DetectionTypes)

NextValidator ==
    \/ Validate /\ UNCHANGED <<loopVars, cliVars, convVars, histIn, detVars>>
    \/ Revalidate /\ UNCHANGED <<loopVars, cliVars, convVars, histIn, detVars>>

SpecValidator == InitValidator /\ [][NextValidator]_vars

\* ---- the Detections of the main context: one answer of a model
InitConvert ==
    /\ sessionKey = NoKey
    /\ InitLoop
    /\ cliIn = IdleClient
    /\ cliOut = NotCalled
    /\ valIn = IdleValidator
    /\ valOut = <<>>
    /\ convIn \in ConvInputs
    /\ convOut = <<>>
    /\ InitDetection(DetectionTypes)

NextConvert == Convert /\ UNCHANGED <<loopVars, cliVars, valVars, histIn, detVars>>

SpecConvert == InitConvert /\ [][NextConvert]_vars

\* ------------------------------------------------- properties of the loop
InFlight(r) == run[r].pc \in {"evaluating", "planning"}
Returns(r) == InFlight(r) /\ run'[r].pc = "done"
IsAuthFailure(sc) == sc.net = "response" /\ sc.status \in {401, 403}

RunWithinMaxSteps ==
    \A r \in Runs : InFlight(r) =>
        /\ run[r].step >= 1
        /\ run[r].step <= run[r].maxSteps
        /\ run[r].planCalls <= run[r].step
        /\ run[r].planCalls <= run[r].maxSteps
RunHalts ==
    \A r \in Runs :
        /\ Returns(r) => ~sota'.isRunning
        /\ run[r].pc = "done" => run'[r].pc = "done"

\* C1: a run started with maxSteps >= 1 never works on a step numbered above
\* maxSteps, so it makes at most maxSteps Evaluate calls (one per step) and
\* at most maxSteps Planner calls; when it returns isRunning is false, and a
\* run that has returned stays returned.
C1_BoundedRun == []RunWithinMaxSteps /\ [][RunHalts]_vars

\* a run has used all its maxSteps steps and ended with max_steps
C1_Witness ==
    /\ run[1].pc = "done" /\ run[2].pc = "unused"
    /\ sota.status = "max_steps" /\ ~sota.isRunning
    /\ Len(sota.iterations) = sota.maxSteps

TargetReply(r, sc) ==
    /\ evaluateWithLisa(sc).ok
    /\ evaluateWithLisa(sc).value.vaguenessScore >= run[r].targetScore

\* C2: when the Evaluate call of a run returns a clamped score >= targetScore
\* the run appends one iteration with plan = null and appliedRedactions = [],
\* sets status = completed and returns in the same task: the Planner is not
\* called for the step, nothing is applied (image and history stay as they
\* are) and the run makes no further request.
C2_TargetStops ==
    [][\A r \in Runs : run[r].pc = "evaluating" /\ run'[r].pc # "evaluating" =>
          \A sc \in LisaReplies({200}, {FALSE}, LoopRawEvaluations) :
              TargetReply(r, sc) /\ EvaluateSettlesAs(r, sc) =>
                  /\ run'[r].pc = "done"
                  /\ sota'.status = "completed" /\ ~sota'.isRunning
                  /\ sota'.currentScore = evaluateWithLisa(sc).value.vaguenessScore
                  /\ sota'.iterations = Append(sota.iterations,
                         Iteration(run[r].step, evaluateWithLisa(sc).value, NullPlan, <<>>))
                  /\ history' = history /\ image' = image]_vars

\* the first score of a run reached the target: completed after step 1
C2_Witness ==
    /\ run[1].pc = "done" /\ run[2].pc = "unused"
    /\ sota.status = "completed" /\ sota.currentStep = 1
    /\ Len(sota.iterations) = 1
    /\ sota.iterations[1].plan = NullPlan
    /\ sota.iterations[1].appliedRedactions = <<>>
    /\ sota.iterations[1].evaluation.vaguenessScore >= sota.targetScore

\* C3: a run whose Evaluate request settles after cancelRalphLisaLoop was
\* issued ends with status = cancelled.
C3_CancelledWhileEvaluating ==
    [][\A r \in Runs : \A sc \in EvalScenarios(TRUE) :
          run[r].aborted /\ EvaluateSettlesAs(r, sc) =>
              run'[r].pc = "done" /\ sota'.status = "cancelled"]_vars

\* C6: at most one run is active, hence at most one request is in flight.
C6_SingleRun == Cardinality({r \in Runs : InFlight(r)}) <= 1

AuthFailureEndsRun ==
    \A r \in Runs : InFlight(r) /\ run'[r] # run[r] =>
        \A sc \in ErrorResponses(LoopErrorStatuses, {"other"}) :
            IsAuthFailure(sc) /\ (EvaluateSettlesAs(r, sc) \/ PlanSettlesAs(r, sc, {})) =>
                /\ run'[r].pc = "done"
                /\ sota'.status = "error" /\ ~sota'.isRunning
                /\ sota'.apiKey = NoKey /\ sessionKey' = NoKey
KeylessStartFails ==
    sota.apiKey = NoKey /\ StartRalphLisaLoop =>
        /\ run' = run
        /\ sota'.status = "error" /\ ~sota'.isRunning
        /\ sota'.error = "No API key configured"
OnlySetApiKeySetsKey ==
    sota.apiKey = NoKey /\ sota'.apiKey # NoKey => \E k \in Keys : SetApiKey(k)

\* C9: a request of a run that fails with HTTP 401 or 403 ends the run with
\* status = error and isRunning = false and removes the API key from the
\* loop state and from the session store; while no key is set a call of
\* startRalphLisaLoop fails validation and starts no run, and only setApiKey
\* sets a key.
C9_AuthFailure == [][AuthFailureEndsRun /\ KeylessStartFails /\ OnlySetApiKeySetsKey]_vars

\* a run has ended on a 401: the key is gone from both places
C9_Witness ==
    /\ run[1].pc = "done"
    /\ sota.status = "error" /\ sota.error = StatusMessage(401)
    /\ sota.apiKey = NoKey /\ sessionKey = NoKey

FailureEndsRun ==
    \A r \in Runs : InFlight(r) /\ run'[r] # run[r] =>
        \A sc \in LoopFailures(run[r].aborted) :
            EvaluateSettlesAs(r, sc) \/ PlanSettlesAs(r, sc, {}) =>
                /\ run'[r] = ReturnedRun
                /\ sota'.status = "error" /\ ~sota'.isRunning
                /\ sota'.error = callOpenRouter(sc).err.message
                /\ sota'.iterations = sota.iterations
                /\ history' = history /\ image' = image
ReturnedRunIsOver == \A r \in Runs : run[r].pc = "done" => run'[r] = run[r]

\* C12: when the Evaluate or the Planner request of step k fails, the run
\* returns in the same task with status = error, isRunning = false and the
\* failure's message as error; the request is not repeated and the run makes
\* no further request, nothing is applied (image and undo history stay as
\* they are) and the recorded iterations stay as they were: none is added for
\* step k.
C12_FailureEndsRun == [][FailureEndsRun /\ ReturnedRunIsOver]_vars

\* the Evaluate request of step 2 failed: the run is over with the error and
\* the iteration of step 1
C12_Witness ==
    /\ run[1].pc = "done" /\ run[2].pc = "unused"
    /\ sota.status = "error" /\ sota.error = "Failed to connect to OpenRouter"
    /\ sota.currentStep = 2 /\ Len(sota.iterations) = 1
    /\ sota.iterations[1].step = 1

TerminalStatuses == {"completed", "max_steps", "cancelled", "error"}
ReturnsTerminal ==
    \A r \in Runs : Returns(r) =>
        /\ ~sota'.isRunning
        /\ sota'.status \in TerminalStatuses
        /\ sota'.status = "error" => sota'.error # NoError

\* C14: provided every request settles, a run that was started returns, and
\* when it returns isRunning is false and status is one of completed,
\* max_steps, cancelled and error; a run that ends on an exception (a failed
\* request, a reply that cannot be read, the image gone) returns with
\* status = error and the exception's message.
C14_RunTerminates ==
    /\ \A r \in Runs : InFlight(r) ~> run[r].pc = "done"
    /\ [][ReturnsTerminal]_vars

\* a reply of null made the Evaluator throw a TypeError: the run has ended
\* with it as the error
C14_Witness ==
    /\ run[1].pc = "done" /\ ~sota.isRunning
    /\ sota.status = "error"
    /\ sota.error = "Cannot read properties of null (reading 'vaguenessScore')"

\* a cancel marks the token of every run that is active when it is issued
CancelReachesActiveRuns ==
    CancelRalphLisaLoop => \A r \in Runs : InFlight(r) => run'[r].aborted
\* the next thing a run does once its token is set is to return, whatever its
\* pending request settles as, without applying or recording an undo step
AbortedRunStops ==
    \A r \in Runs : InFlight(r) /\ run[r].aborted /\ run'[r] # run[r] =>
        /\ run'[r].pc = "done"
        /\ history' = history /\ image' = image

\* C13: once cancelRalphLisaLoop was issued while a run is active, that run
\* issues no new request, applies no redaction, pushes nothing to the undo
\* history and executes no further step.  The token is all a run looks at
\* (before Evaluate, before Plan, before Apply): the cancel has to set the
\* token of the active run, and a run whose token is set has to return at its
\* next check.
C13_CancelStopsRun == [][CancelReachesActiveRuns /\ AbortedRunStops]_vars

\* a reply that does not reach the target, to the request of a run that is
\* not cancelled and still has its image
GoesOn(r) == ~run[r].aborted /\ image # NoImage
LastIteration(s) == s.iterations[Len(s.iterations)]
StepRecorded(r) ==
    /\ Len(sota'.iterations) = Len(sota.iterations) + 1
    /\ LastIteration(sota').step = run[r].step
    /\ ~LastIteration(sota').plan.isNull
NextStepOrMaxSteps(r) ==
    IF run[r].step < run[r].maxSteps
    THEN run'[r].pc = "evaluating" /\ run'[r].step = run[r].step + 1
    ELSE /\ run'[r].pc = "done"
         /\ sota'.status = "max_steps" /\ ~sota'.isRunning
StepCompletes ==
    \A r \in Runs : InFlight(r) /\ GoesOn(r) /\ run'[r] # run[r] =>
        /\ \A sc \in RalphReplies({200}, {FALSE}, LoopPlans) :
              PlanSettlesAs(r, sc, {}) => StepRecorded(r) /\ NextStepOrMaxSteps(r)
        /\ \A sc \in LisaReplies({200}, {FALSE}, LoopRawEvaluations) :
              /\ ~TargetReply(r, sc)
              /\ EvaluateSettlesAs(r, sc)
              => \/ run'[r].pc = "planning" /\ run'[r].step = run[r].step
                                            /\ sota'.iterations = sota.iterations
                 \/ StepRecorded(r) /\ NextStepOrMaxSteps(r)
MaxStepsOnlyAtTheEnd ==
    \A r \in Runs : Returns(r) /\ sota'.status = "max_steps" =>
        run[r].step = run[r].maxSteps

\* C15: in a run without failure and cancel whose scores stay below the
\* target every step 1..maxSteps records an iteration with a non-null plan
\* and is followed by the next step, and the run returns with status =
\* max_steps after step maxSteps and at no other step.
C15_MaxSteps == [][StepCompletes /\ MaxStepsOnlyAtTheEnd]_vars

\* a run of maxSteps = 2 steps has ended with max_steps; both steps recorded
\* an iteration with a plan
C15_Witness ==
    /\ run[1].pc = "done" /\ run[2].pc = "unused"
    /\ sota.status = "max_steps" /\ sota.maxSteps = 2 /\ sota.currentStep = 2
    /\ Len(sota.iterations) = 2
    /\ \A i \in 1..2 : sota.iterations[i].step = i /\ ~sota.iterations[i].plan.isNull
    /\ \A i \in 1..2 : sota.iterations[i].evaluation.vaguenessScore < sota.targetScore

\* the message startRalphLisaLoop fails validation with, if it does
LoopValidationError ==
    IF sota.apiKey = NoKey THEN "No API key configured"
    ELSE IF image = NoImage THEN "No image loaded"
    ELSE NoError

\* C16: startRalphLisaLoop called with no API key or with no image loaded
\* reports the validation error (status = error, the message as error) and
\* starts no run: no activation and no request come into being, isRunning is
\* false afterwards, and the iterations of the previous run are kept.
C16_LoopValidation ==
    [][LoopValidationError # NoError /\ StartRalphLisaLoop =>
          /\ UNCHANGED <<run, currentAbortController, sessionKey, image, history>>
          /\ sota' = [sota EXCEPT !.isRunning = FALSE, !.status = "error",
                                  !.error = LoopValidationError]]_vars

\* a start with no image loaded, after a run that recorded an iteration, has
\* failed validation: the iteration is still there
C16_Witness ==
    /\ image = NoImage /\ sota.apiKey # NoKey
    /\ sota.status = "error" /\ sota.error = "No image loaded" /\ ~sota.isRunning
    /\ Len(sota.iterations) = 1
    /\ \A r \in Runs : ~InFlight(r)

\* ----------------------------------------------- properties of the client
ClientFailed == cliOut.called /\ ~cliOut.res.ok
ClientFailedOnStatus(statuses) ==
    ClientFailed /\ cliIn.sc.net = "response" /\ cliIn.sc.status \in statuses

C11_RetryableFollowsKind ==
    ClientFailed =>
        LET err == cliOut.res.err IN
        /\ err.type \in {"rate_limit", "server"} => err.retryable
        /\ err.type = "parse" => ~err.retryable

\* ------------------------------------------- properties of the Validator
Validated == valOut # <<>>
\* a rectangle inside an image of the given size
Inside(r, imageWidth, imageHeight) ==
    /\ 0 <= r.x /\ r.x < imageWidth
    /\ 0 <= r.y /\ r.y < imageHeight
    /\ r.width >= 1 /\ r.height >= 1
    /\ r.x + r.width <= imageWidth
    /\ r.y + r.height <= imageHeight

\* the commands a step pushes: one per rectangle that applyRedactions handed
\* to applyRectRedaction without an exception, with that rectangle as region
PushedCommands ==
    {history'.commands[i] : i \in (Len(history.commands) + 1)..Len(history'.commands)}

\* C18: every rectangle the Apply step of a run hands to applyRectRedaction
\* lies inside the image that is current when it is applied, with width and
\* height of at least 1, whatever the planner returned and whatever happened
\* to the image since the Planner was called.
C18_AppliedInside ==
    [][\A c \in PushedCommands : Inside(c.region, Width(image), Height(image))]_vars

\* C17: for every raw plan and every image of at least 1 x 1, every
\* redaction the Validator returns satisfies 0 <= x < imageWidth,
\* 0 <= y < imageHeight, width >= 1, height >= 1, x + width <= imageWidth and
\* y + height <= imageHeight.
C17_ValidatedInside ==
    \A i \in DOMAIN valOut : \A k \in DOMAIN valOut[i].redactions :
        Inside(valOut[i].redactions[k], valIn.imageWidth, valIn.imageHeight)

\* a rectangle that began right of a 1 x 1 image, with no usable width, has
\* been brought into it
C17_Witness ==
    /\ Len(valOut) = 1 /\ Len(valOut[1].redactions) = 1
    /\ valIn.imageWidth = 1 /\ valIn.imageHeight = 1
    /\ valIn.raw.redactions[1].x = Num(2 * MaxSide + 1)
    /\ valIn.raw.redactions[1].width = NotANumber
    /\ valOut[1].redactions[1].x = 0 /\ valOut[1].redactions[1].width = 1

\* C19: a plan the Validator returned, given to the Validator again with the
\* same image size, comes back identical: the same items in the same order
\* with the same fields, and the same explanation.
C19_Idempotent == Len(valOut) = 2 => valOut[2] = valOut[1]

\* a plan that validation had to change has been validated a second time
C19_Witness ==
    /\ Len(valOut) = 2 /\ Len(valOut[2].redactions) = 2
    /\ AsRaw(valOut[1]) # valIn.raw

\* the k-th item returned stems from the k-th item of the raw plan
SameItem(out, in) ==
    /\ in.reason # NotAString => out.reason = in.reason
    /\ in.style \in ValidStyles => out.style = in.style

\* C37: the Validator never drops an item: for a raw plan whose redactions
\* field is an array the plan returned has as many redactions as the raw
\* plan, in the same order (a width or height of 0, or below, is replaced
\* by a positive size and the item is kept).
C37_NoItemDropped ==
    Validated /\ valIn.raw.isArray =>
        /\ Len(valOut[1].redactions) = Len(valIn.raw.redactions)
        /\ \A k \in DOMAIN valIn.raw.redactions :
              SameItem(valOut[1].redactions[k], valIn.raw.redactions[k])

\* a plan of two items, the second with a negative width and height, came
\* back with both items in their order
C37_Witness ==
    /\ Validated /\ valIn.raw.isArray
    /\ Len(valIn.raw.redactions) = 2
    /\ valIn.raw.redactions[2].width = Num(-3) /\ valIn.raw.redactions[2].height = Num(-3)
    /\ Len(valOut[1].redactions) = 2
    /\ valOut[1].redactions[1].reason = "face" /\ valOut[1].redactions[2].reason = "text"
    /\ valOut[1].redactions[2].width >= 1 /\ valOut[1].redactions[2].height >= 1

\* the nearest integer to a number given in halves, a half going up
Rounded(halves) ==
    CHOOSE n \in -(MaxSide + 2)..(MaxSide + 2) : 2 * n - 1 <= halves /\ halves < 2 * n + 1
Clamp(v, lo, hi) == IF v < lo THEN lo ELSE IF v > hi THEN hi ELSE v
Numeric(r) == r.x.num /\ r.y.num /\ r.width.num /\ r.height.num

\* C20: for a rectangle whose x, y, width and height are numbers the
\* Validator returns x' = clamp(round(x), 0, imageWidth - 1),
\* y' = clamp(round(y), 0, imageHeight - 1),
\* width' = max(1, min(imageWidth - x', round(width))) and
\* height' = max(1, min(imageHeight - y', round(height))).
C20_ClampedRectangle ==
    Validated /\ Len(valIn.raw.redactions) = 1 /\ Numeric(valIn.raw.redactions[1]) =>
        LET r == valIn.raw.redactions[1]
            out == valOut[1].redactions[1]
            x == Clamp(Rounded(r.x.halves), 0, valIn.imageWidth - 1)
            y == Clamp(Rounded(r.y.halves), 0, valIn.imageHeight - 1)
        IN /\ out.x = x
           /\ out.y = y
           /\ out.width = Max(1, Min(valIn.imageWidth - x, Rounded(r.width.halves)))
           /\ out.height = Max(1, Min(valIn.imageHeight - y, Rounded(r.height.halves)))

\* the nearest integer to an intensity given in halves, a half going up
RoundedIntensity(halves) ==
    CHOOSE n \in -2..(2 * MaxIntensity + 2) : 2 * n - 1 <= halves /\ halves < 2 * n + 1

\* C21: the intensity the Validator returns for an item is
\* clamp(round(n), 1, 100) when the item's intensity is a number n, so that
\* every number below 1, 0 included, gives 1; it is the default 70 when the
\* intensity is absent or not a number.
C21_IntensityClamped ==
    \A k \in DOMAIN valIn.raw.redactions : Validated /\ valIn.raw.isArray =>
        LET n == valIn.raw.redactions[k].intensity
            out == valOut[1].redactions[k].intensity
        IN IF n.num THEN out = Clamp(RoundedIntensity(n.halves), 1, MaxIntensity)
           ELSE out = DefaultIntensity

\* run r issues a request in this step: the Evaluate request of a step or
\* its Planner request, with the key of its snapshot (index.ts:61-66, 93-97)
IssuesRequest(r) ==
    /\ run'[r].pc \in {"evaluating", "planning"}
    /\ <<run'[r].pc, run'[r].step>> # <<run[r].pc, run[r].step>>
KeyEvicted == sota.apiKey = NoKey /\ sessionKey = NoKey

\* C40: once the API key has been evicted (clearApiKey by disconnect or by
\* an auth failure) no remote call issued afterwards carries the evicted
\* key, also when a run that started with that key is still active: while
\* no key is held no run issues a request.
C40_NoCallWithEvictedKey ==
    [][\A r \in Runs : KeyEvicted => ~IssuesRequest(r)]_vars

\* ------------------------------------------ properties of the iterations
\* the k-th entry is the record of step k
StepsNumbered == \A k \in DOMAIN sota.iterations : sota.iterations[k].step = k
\* no more entries than the maxSteps an active run started with
WithinRunsMaxSteps ==
    \A r \in Runs : InFlight(r) => Len(sota.iterations) <= run[r].maxSteps
\* a step leaves the recorded entries as they are, or empties the list
RecordedKept ==
    \/ sota'.iterations = <<>>
    \/ /\ Len(sota'.iterations) >= Len(sota.iterations)
       /\ \A k \in DOMAIN sota.iterations : sota'.iterations[k] = sota.iterations[k]
\* the list is emptied by startLoop or reset only
EmptiedByStartOrReset ==
    sota.iterations # <<>> /\ sota'.iterations = <<>> =>
        \/ sota' = SotaReset(sessionKey)
        \/ \E r \in Runs : run[r].pc = "unused" /\ run'[r].pc # "unused"

\* C35: in every state of a loop run the k-th entry of iterations has
\* step = k and the list is no longer than the maxSteps the run started
\* with; recorded entries are never changed or removed, and only startLoop
\* or reset empties the list.
C35_IterationsAppendOnly ==
    []StepsNumbered /\ []WithinRunsMaxSteps /\ [][RecordedKept /\ EmptiedByStartOrReset]_vars

\* the statuses of a run that is under way, types.ts:57-65
RunningStatuses == {"evaluating", "planning", "redacting"}

\* C36: in every state reachable by startRalphLisaLoop, cancelRalphLisaLoop,
\* setApiKey, clearApiKey, reset and the progress of the loop, isRunning is
\* true exactly when status is evaluating, planning or redacting.
C36_RunningMatchesStatus == sota.isRunning <=> sota.status \in RunningStatuses

\* --------------------------------------------- properties of the API key
KeyKept == sota'.apiKey = sota.apiKey /\ sessionKey' = sessionKey
\* a run that ends completed, max_steps or cancelled leaves the key
EndWithoutErrorKeepsKey ==
    \A r \in Runs : Returns(r) /\ sota'.status \in {"completed", "max_steps", "cancelled"}
        => KeyKept
\* a run that ends on a failure that is not an auth failure leaves the key
OtherFailureKeepsKey ==
    \A r \in Runs : Returns(r) =>
        \A sc \in KeyFailures(run[r].aborted) :
            ~IsAuthFailure(sc) /\ (EvaluateSettlesAs(r, sc) \/ PlanSettlesAs(r, sc, {})) =>
                KeyKept

\* C38: only an auth failure evicts the key: a run that ends completed,
\* max_steps or cancelled, or with an error of kind rate_limit, server,
\* network or parse, leaves the API key of the loop state and of the session
\* store as they were.
C38_OnlyAuthEvicts == [][EndWithoutErrorKeepsKey /\ OtherFailureKeepsKey]_vars

\* a run has ended on a 429 and the key is still in both places
C38_Witness ==
    /\ run[1].pc = "done"
    /\ sota.status = "error" /\ sota.error = StatusMessage(429)
    /\ sota.apiKey # NoKey /\ sessionKey = sota.apiKey

\* ----------------------------------------- properties of the undo history
IndexInRange == -1 <= history.currentIndex /\ history.currentIndex <= Len(history.commands) - 1
UndoAtStartIsNoop == history.currentIndex = -1 => HistoryUndo(history) = history
RedoAtEndIsNoop ==
    history.currentIndex = Len(history.commands) - 1 => HistoryRedo(history) = history
\* canUndo and canRedo tell whether undo and redo move the index
CanUndoExact ==
    /\ canUndo(history) <=> history.currentIndex >= 0
    /\ canUndo(history) <=> HistoryUndo(history).currentIndex = history.currentIndex - 1
CanRedoExact ==
    /\ canRedo(history) <=> history.currentIndex < Len(history.commands) - 1
    /\ canRedo(history) <=> HistoryRedo(history).currentIndex = history.currentIndex + 1
ActiveIsPrefix ==
    /\ Len(getActiveCommands(history)) = history.currentIndex + 1
    /\ \A k \in DOMAIN getActiveCommands(history) :
          getActiveCommands(history)[k] = history.commands[k]

\* C32: after any sequence of push, undo, redo and clear,
\* -1 <= currentIndex <= commands.length - 1; undo at -1 and redo at
\* commands.length - 1 change nothing; canUndo holds exactly when
\* currentIndex >= 0, canRedo exactly when currentIndex < commands.length - 1;
\* the active commands are the first currentIndex + 1 commands.
C32_HistoryIndex ==
    /\ IndexInRange
    /\ UndoAtStartIsNoop /\ RedoAtEndIsNoop
    /\ CanUndoExact /\ CanRedoExact
    /\ ActiveIsPrefix

\* an undo was called on a history with nothing to undo and two commands to redo
C32_Witness ==
    /\ histIn.op = "undo" /\ histIn.before.currentIndex = -1
    /\ Len(history.commands) = 2 /\ history = histIn.before
    /\ canRedo(history) /\ ~canUndo(history)

\* the last call was a push on a history with commands to redo
PushAfterUndo == histIn.op = "push" /\ histIn.before.currentIndex < Len(histIn.before.commands) - 1

\* C33: a push made after one or more undos discards the commands beyond
\* currentIndex before appending: commands is the previously active prefix
\* followed by the new command, currentIndex points at the new command and
\* canRedo is false.
C33_PushTruncates ==
    PushAfterUndo =>
        /\ Len(history.commands) = histIn.before.currentIndex + 2
        /\ \A k \in 1..(histIn.before.currentIndex + 1) :
              history.commands[k] = histIn.before.commands[k]
        /\ history.commands[Len(history.commands)] = histIn.command
        /\ history.currentIndex = Len(history.commands) - 1
        /\ ~canRedo(history)

\* three commands, two undos, then a push of a different command
C33_Witness ==
    /\ PushAfterUndo
    /\ Len(histIn.before.commands) = 3 /\ histIn.before.currentIndex = 0
    /\ Len(history.commands) = 2
    /\ history.commands[2] # histIn.before.commands[2]

\* ------------------------------------------------ properties of the score
InUnitInterval(score) == score \in 0..100

\* C31: the score the loop records is the Evaluator's score clamped into
\* [0,1]: currentScore is null or within [0,1], and the vaguenessScore of
\* every recorded iteration is within [0,1] (scores are in hundredths).
C31_ScoreClamped ==
    /\ sota.currentScore = NoScore \/ InUnitInterval(sota.currentScore)
    /\ \A k \in DOMAIN sota.iterations :
          InUnitInterval(sota.iterations[k].evaluation.vaguenessScore)

\* a reply of -0.1 was recorded as 0 and a reply of 1.2 as 1
C31_Witness ==
    /\ Len(sota.iterations) = 2
    /\ sota.iterations[1].evaluation.vaguenessScore = 0
    /\ sota.iterations[2].evaluation.vaguenessScore = 100
    /\ sota.currentScore = 100 /\ sota.status = "completed"

\* ------------------------------------------- properties of a step's plan
\* the iteration the step records, if it records one
RecordsIteration == Len(sota'.iterations) = Len(sota.iterations) + 1
Recorded == sota'.iterations[Len(sota'.iterations)]
\* the evaluations for which the Planner is to answer without a request
NeedsNoPlan(evaluation) == evaluation.visibleLeaks = 0 \/ evaluation.vaguenessScore >= 90

\* a Planner request is issued only for an evaluation with leaks and a score
\* below 0.9
RequestOnlyForLeaks ==
    \A r \in Runs :
        run[r].pc = "evaluating" /\ run'[r].pc = "planning" => ~NeedsNoPlan(run'[r].evaluation)
\* the step that receives an evaluation and records its iteration with a
\* plan had that plan without a request: it is empty and nothing is applied
PlanWithoutRequestIsEmpty ==
    \A r \in Runs :
        run[r].pc = "evaluating" /\ run'[r] # run[r] /\ RecordsIteration
        /\ ~Recorded.plan.isNull =>
            /\ NeedsNoPlan(Recorded.evaluation)
            /\ Recorded.plan.redactions = <<>> /\ Recorded.appliedRedactions = <<>>
            /\ history' = history /\ image' = image

\* C29: for an evaluation with no visibleLeaks, or with a vaguenessScore of
\* at least 0.9, planWithRalph issues no request and returns a plan without
\* redactions: the step applies nothing, records the empty plan and leaves
\* the image and the undo history as they are.
C29_EmptyPlanWithoutCall == [][RequestOnlyForLeaks /\ PlanWithoutRequestIsEmpty]_vars

\* both early returns have been taken: no leaks, and a score of 0.92 below a
\* target of 0.95
C29_Witness ==
    /\ Len(sota.iterations) = 2
    /\ sota.iterations[1].evaluation.visibleLeaks = 0
    /\ sota.iterations[1].plan = EmptyPlan(sota.iterations[1].evaluation)
    /\ sota.iterations[2].evaluation.vaguenessScore = 92
    /\ sota.iterations[2].evaluation.visibleLeaks > 0
    /\ ~sota.iterations[2].plan.isNull /\ sota.iterations[2].plan.redactions = <<>>
    /\ history = InitialHistory

RECURSIVE Successful(_, _)
\* the redactions of a plan whose application does not throw, in plan order
Successful(redactions, fails) ==
    IF redactions = <<>> THEN <<>>
    ELSE (IF Head(redactions) \in fails THEN <<>> ELSE <<Head(redactions)>>)
         \o Successful(Tail(redactions), fails)
\* the undo history after one command was pushed for each of `applied`
PushedOnePer(applied) ==
    /\ Len(history'.commands) = history.currentIndex + 1 + Len(applied)
    /\ history'.currentIndex = Len(history'.commands) - 1
    /\ \A k \in 1..(history.currentIndex + 1) : history'.commands[k] = history.commands[k]
    /\ \A k \in DOMAIN applied :
          history'.commands[history.currentIndex + 1 + k] = RectCommand(applied[k])

\* C30: the Apply step goes through the plan in order and skips a redaction
\* whose application throws: the iteration's appliedRedactions are the
\* redactions of the plan that did not throw, in plan order, one command is
\* pushed on the undo history for each of them and none for a skipped one,
\* and the run goes on (next step or max_steps) with no error.
C30_AppliedInOrder ==
    [][\A r \in Runs :
          run[r].pc = "planning" /\ run'[r] # run[r] /\ RecordsIteration =>
              \A sc \in StepPlanScenarios, fails \in StepFailChoices :
                  PlanSettlesAs(r, sc, fails) =>
                      /\ Recorded.appliedRedactions = Successful(Recorded.plan.redactions, fails)
                      /\ PushedOnePer(Recorded.appliedRedactions)
                      /\ sota'.error = sota.error
                      /\ sota'.status \in {"evaluating", "max_steps"}]_vars

\* a plan of three redactions of which the second threw
C30_Witness ==
    /\ sota.iterations # <<>>
    /\ Len(LastIteration(sota).plan.redactions) = 3
    /\ LastIteration(sota).appliedRedactions =
          <<LastIteration(sota).plan.redactions[1], LastIteration(sota).plan.redactions[3]>>
    /\ Len(history.commands) = 2

\* ------------------------------- properties of the main context's Detections
Converted == convOut # <<>>
WellFormed(d, imageWidth, imageHeight) ==
    /\ 0 <= d.confidence /\ d.confidence <= 100
    /\ d.bbox.width > 0 /\ d.bbox.height > 0
    /\ 0 <= d.bbox.x /\ d.bbox.x + d.bbox.width <= imageWidth
    /\ 0 <= d.bbox.y /\ d.bbox.y + d.bbox.height <= imageHeight

\* C22: every Detection detectFaces and runTextDetection make of an answer of
\* the face model or of the OCR engine has a confidence within [0,1], a
\* bounding box of positive width and height, and a bounding box that lies
\* inside the image.
C22_DetectionsWellFormed ==
    Converted =>
        \A k \in DOMAIN convOut[1] :
            WellFormed(convOut[1][k], Width(convIn.image), Height(convIn.image))

\* -------------------------------------------- properties of the detection
Busy == det.isDetecting \/ det.isDownloading
InContext(req) ==
    detRun[req].face \in {"wasm", "create", "bitmap"} \/ detRun[req].text \in {"create", "recognize"}
\* the detections a step appends to results
AddedResults ==
    IF Len(det'.results) > Len(det.results)
    THEN {det'.results[i] : i \in (Len(det.results) + 1)..Len(det'.results)}
    ELSE {}

\* a message of a run that is not the current one; the acknowledgement of a
\* cancel is meant to act on the state
Stale(m) == m.req # mgr.currentRequestId /\ m.type # "cancelled"

\* C4: a message of the worker that belongs to another run than the current
\* one (its run was cancelled, finished or superseded) is ignored by
\* worker.onmessage: results, progress, status and error stay as they are.
C4_StaleIgnored ==
    [][toMain # <<>> /\ Stale(Head(toMain)) /\ OnMessage(Head(toMain)) =>
          /\ det'.results = det.results
          /\ det'.progress = det.progress /\ det'.downloadProgress = det.downloadProgress
          /\ det'.isDetecting = det.isDetecting /\ det'.isDownloading = det.isDownloading
          /\ det'.currentStage = det.currentStage
          /\ det'.error = det.error]_vars

FinishedAfterAll ==
    \A req \in RequestIds : detRun[req].finished =>
        detRun[req].completeSeen /\ ~InContext(req)
NothingAddedOnceFinished ==
    \A req \in RequestIds : detRun[req].finished =>
        \A d \in AddedResults : d.req # req

\* C5: a run is marked completed only after its complete message was handled
\* and its face and text detections in the main context have ended, and no
\* detection of the run is added to results afterwards.
C5_CompletedAfterAll == []FinishedAfterAll /\ [][NothingAddedOnceFinished]_vars

Appends ==
    /\ Len(det'.results) >= Len(det.results)
    /\ SubSeq(det'.results, 1, Len(det.results)) = det.results
\* worker.onmessage handles a results message: its batch is what is added
BatchAppended ==
    toMain # <<>> /\ Head(toMain).type = "results" /\ toMain' = Tail(toMain) =>
        det'.results = det.results \o Head(toMain).detections
\* a run begins (startDetection accepts the call) or is cleared (the
\* acknowledgement of a cancel is handled, the panel is closed)
BeginsRun == mgr'.nextRequestId # mgr.nextRequestId
ClearsRun ==
    \/ toMain # <<>> /\ Head(toMain).type = "cancelled" /\ toMain' = Tail(toMain)
    \/ toMain' = toMain /\ det' = DetClearResults(det)

CancelSendsOne ==
    mgr.currentRequestId # NoRequest /\ CancelDetection =>
        /\ toWorker' = Append(toWorker, CancelMessage(mgr.currentRequestId))
        /\ det' = det
\* worker.onmessage handles the acknowledgement: the run's state is cleared
AcknowledgementClears ==
    toMain # <<>> /\ Head(toMain).type = "cancelled" /\ toMain' = Tail(toMain) =>
        /\ det'.results = <<>>
        /\ ~det'.isDetecting /\ ~det'.isDownloading
        /\ det'.progress = 0

\* C24: cancelDetection called while a run is active posts one cancel message
\* carrying the run's request id and leaves the detection state as it is; the
\* state is cleared (no results, not detecting, not downloading, progress 0)
\* in the step that handles the worker's cancelled acknowledgement.
C24_CancelAcknowledged == [][CancelSendsOne /\ AcknowledgementClears]_vars

\* a detector of the main context threw in this step, for request req
Throws(req) == detRun'[req].logged # detRun[req].logged
\* the exception changes neither the error nor the results
ThrowContained ==
    \A req \in DOMAIN detRun : Throws(req) =>
        /\ det'.error = det.error
        /\ det'.currentStage = "Error" => det.currentStage = "Error"
        /\ det'.results = det.results
\* something is under way that can still act on the detection state: a
\* message not yet handled or a promise not yet settled
UnderWay ==
    \/ toWorker # <<>> \/ toMain # <<>>
    \/ \E q \in DOMAIN detRun :
          \/ detRun[q].start = "init"
          \/ detRun[q].wpc \in {"plate_load", "plate_infer", "doc_load", "doc_infer"}
          \/ detRun[q].text \in {"create", "recognize"}
          \/ detRun[q].face \in {"wasm", "create", "bitmap"}
\* the current run, one of whose detectors threw, is not left detecting
\* with nothing under way
ThrowingRunCompletes ==
    \A req \in DOMAIN detRun :
        detRun[req].logged # {} /\ mgr.currentRequestId = req /\ det.isDetecting => UnderWay

\* C25: an exception of the face or text detector of the main context is
\* contained: the step that catches it leaves error and results as they
\* are and does not set the stage to Error, and the run goes on to its
\* completion: it is never left detecting with nothing under way.
C25_ThrowContained == [][ThrowContained]_vars /\ []ThrowingRunCompletes

\* worker.onmessage hands a run to the face detector while the face model
\* is being initialised for an earlier one
FaceRequestedWhileInitializing ==
    /\ toMain # <<>> /\ Head(toMain).type = "run_mediapipe_face_detection"
    /\ toMain' = Tail(toMain)
    /\ "face" \in det.enabledTypes /\ image # NoImage
    /\ ~mp.faceDetector /\ mp.isInitializing

\* C26: a face detection requested while the face model is still being
\* initialised for an earlier request starts no second initialisation and
\* does not fail: it waits for the initialisation under way and goes on to
\* detect.
C26_JoinsInitialisation ==
    [][FaceRequestedWhileInitializing =>
          LET req == Head(toMain).req IN
          /\ mp' = mp
          /\ "face" \notin detRun'[req].logged
          /\ detRun'[req].face \in {"wasm", "create", "bitmap"}]_vars

\* the construction of the face detector (initFaceDetector past its guard)
\* or of the OCR engine (Tesseract.createWorker) begins for request req
FaceConstructionBegins(req) == detRun'[req].face = "wasm" /\ detRun[req].face # "wasm"
OcrConstructionBegins(req) == detRun'[req].text = "create" /\ detRun[req].text # "create"
FaceUnderConstruction == \E q \in DOMAIN detRun : detRun[q].face \in {"wasm", "create"}
OcrUnderConstruction == \E q \in DOMAIN detRun : detRun[q].text = "create"
SingleFaceConstruction ==
    \A req \in DOMAIN detRun :
        FaceConstructionBegins(req) => ~mp.faceDetector /\ ~FaceUnderConstruction
SingleOcrConstruction ==
    \A req \in DOMAIN detRun :
        OcrConstructionBegins(req) => ~mgr.tesseractWorker /\ ~OcrUnderConstruction

\* C27: the construction of the face detector, and of the OCR engine, begins
\* only while no instance of it exists and no construction of it is under
\* way, whatever the interleaving of the requests.
C27_SingleConstruction == [][SingleFaceConstruction /\ SingleOcrConstruction]_vars

\* C28: whatever startDetection, cancelDetection and the closing of the
\* panel do in between, `new Worker` runs only while `worker` holds none: a
\* Worker once created is the one every later run uses (cleanup() is not
\* called in these executions).
C28_SingleExecutor == [][mgr'.worker # mgr.worker => mgr.worker = NoWorker]_vars

\* every detect request on its way to the Executor carries a request id
DetectCarriesId ==
    \A i \in DOMAIN toWorker :
        toWorker[i].type = "detect" => toWorker[i].requestId # NoRequest
\* startDetection goes on after initWorker for a run that was cancelled in
\* between: it sends no detect request, or a cancel for the run follows it
CancelKept ==
    \A req \in DOMAIN detRun :
        detRun[req].start = "init" /\ detRun'[req].start = "posted"
        /\ mgr.currentRequestId # req =>
            \/ toWorker' = toWorker
            \/ toWorker'[Len(toWorker')] = CancelMessage(req)

\* C39: a cancelDetection issued at any moment of an accepted run is not
\* lost, also while startDetection is still creating the Executor:
\* afterwards no detect request is sent for that run, or a cancel for it
\* reaches the Executor; and every detect request sent carries the non-null
\* requestId allocated for its run.
C39_CancelNotLost == []DetectCarriesId /\ [][CancelKept]_vars

\* the main context handles the Executor's report of an error: its error
\* message (lines 111-113) or its error event (lines 115-118)
ErrorReported ==
    \/ /\ toMain # <<>> /\ Head(toMain).type = "error"
       /\ toMain' = Tail(toMain) /\ det'.error = Head(toMain).error
    \/ /\ mgr.worker # NoWorker /\ toMain' = toMain /\ det' # det
       /\ det' = DetSetError(det, "Detection worker crashed")

\* C34: the orchestrator returns to idle from an error: once the Executor's
\* error for a run has been handled, at any phase of the run and also while
\* the models are still downloading, neither isDetecting nor isDownloading
\* is set, so that the next valid startDetection is accepted.
C34_IdleAfterError ==
    [][ErrorReported => ~det'.isDetecting /\ ~det'.isDownloading]_vars

\* the message startDetection reports for the state it is called in, if any
ValidationError ==
    IF image = NoImage THEN "No image loaded"
    ELSE IF Busy THEN NoError
    ELSE IF det.enabledTypes = {} THEN "No detection types enabled"
    ELSE IF needsModelDownload(det) /\ ~det.hasUserConsent
    THEN "Please confirm model download first"
    ELSE NoError

====
